---------------------------- MODULE Spec2Model ----------------------------
(***************************************************************************)
(* Name-identity resolution and mention-graph construction of the          *)
(* legislative-transcript pipeline (graph_creation/graph_joining.py,       *)
(* ner/ner.py).                                                            *)
(*                                                                         *)
(* Python strings are TLA+ strings.  Where the code looks inside a string  *)
(* (regular expressions, lower(), unidecode(), split()) the string is      *)
(* turned into the sequence of its characters with Chars and back with     *)
(* Str.  None is the value None below.                                     *)
(***************************************************************************)
EXTENDS Integers, Sequences, FiniteSets, TLC

VARIABLES
    normalizer,         \* the NameNormalizer instance: norm_to_canonical (key -> the
                        \* record object it refers to), entries (the record objects,
                        \* by identity), conflicts
    last_raw,           \* argument of the latest get_canonical_name call
    last_ret,           \* its return value
    last_branch,        \* the return statement it left through
    repeated,           \* the latest call had the same argument as the one before
    passed,             \* every argument passed to get_canonical_name so far
    file_list,          \* create_graph: the documents of the input directory, in the
                        \* sorted order of their names: [text, readable]
    file_idx,           \* the index in file_list of the next document to open
    speeches,           \* the speeches of the open document still to process
    graph,              \* the DiGraph: nodes, and weight of every edge <<u, v>>
    node_id_counter,    \* the number of nodes created
    seg_log,            \* the speeches folded into the graph so far: the raw speaker
                        \* tag and the raw tags after it
    done,               \* create_graph has saved and returned the graph
    name_parts,         \* the argument of the latest _normalize call, in four parts
    normalized,         \* what that call returned
    NormKey,            \* self._normalize, tabulated on the names of the universe
    Score,              \* fuzz.token_set_ratio, tabulated on the keys of the universe
    pc,                 \* the stage the NER run of one document has reached
    doc_text,           \* the text of the document
    model_answer,       \* what the transformer pipeline answers on the clean text
    stage_entities,     \* process_text: the entity list, as the stages hand it on
    rule_entities,      \* what _rule_based_ner returned
    grouped_results,    \* what process_text returned
    annotated,          \* what create_annotated_text returned
    cli                 \* a run of a command: the command, whether it was given its
                        \* arguments, whether the input directory exists, the number
                        \* of text files in it, whether the process has ended, its
                        \* exit status, and whether an output file was written

-----------------------------------------------------------------------------
(* Characters and strings                                                  *)

Chars(s) == [i \in 1..Len(s) |-> SubSeq(s, i, i)]

\* the string of a character sequence (halving keeps the recursion shallow)
RECURSIVE Str(_)
Str(cs) ==
    IF Len(cs) = 0 THEN ""
    ELSE IF Len(cs) = 1 THEN cs[1]
    ELSE LET h == Len(cs) \div 2
         IN Str(SubSeq(cs, 1, h)) \o Str(SubSeq(cs, h + 1, Len(cs)))

Min(S) == CHOOSE x \in S : \A y \in S : x <= y
Max(S) == CHOOSE x \in S : \A y \in S : x >= y

None == "None"

Range(f) == {f[i] : i \in DOMAIN f}

UpperSeq == Chars("ABCDEFGHIJKLMNOPQRSTUVWXYZ")
LowerSeq == Chars("abcdefghijklmnopqrstuvwxyz")
AccUpperSeq == Chars("ÀÁÂÃÇÉÊÍÓÔÕÚ")
AccLowerSeq == Chars("àáâãçéêíóôõú")
AccBaseSeq == Chars("aaaaceeiooou")
DigitSeq == Chars("0123456789")

Upper == Range(UpperSeq)
Lower == Range(LowerSeq)
AccUpper == Range(AccUpperSeq)
AccLower == Range(AccLowerSeq)
Digit == Range(DigitSeq)
Space == {" ", "\t", "\n"}
AsciiLetter == Upper \cup Lower
Letter == AsciiLetter \cup AccUpper \cup AccLower
Word == Letter \cup Digit \cup {"_"}

IndexOf(seq, c) == CHOOSE i \in DOMAIN seq : seq[i] = c

\* str.lower(), one character
LowerChar(c) ==
    IF c \in Upper THEN LowerSeq[IndexOf(UpperSeq, c)]
    ELSE IF c \in AccUpper THEN AccLowerSeq[IndexOf(AccUpperSeq, c)]
    ELSE c

UpperChar(c) ==
    IF c \in Lower THEN UpperSeq[IndexOf(LowerSeq, c)]
    ELSE IF c \in AccLower THEN AccUpperSeq[IndexOf(AccLowerSeq, c)]
    ELSE c

\* unidecode(), one character: the diacritic is dropped, the case is kept
UnidecodeChar(c) ==
    IF c \in AccLower THEN AccBaseSeq[IndexOf(AccLowerSeq, c)]
    ELSE IF c \in AccUpper THEN UpperChar(AccBaseSeq[IndexOf(AccUpperSeq, c)])
    ELSE c

LowerCs(cs) == [i \in DOMAIN cs |-> LowerChar(cs[i])]
UnidecodeCs(cs) == [i \in DOMAIN cs |-> UnidecodeChar(cs[i])]

\* str.strip(): from the first to the last non-whitespace character
Strip(cs) ==
    LET keep == {i \in DOMAIN cs : cs[i] \notin Space}
    IN IF keep = {} THEN <<>> ELSE SubSeq(cs, Min(keep), Max(keep))

\* the elements of a finite set of integers in ascending order
Ascending(S) ==
    [k \in 1..Cardinality(S) |-> CHOOSE x \in S : Cardinality({y \in S : y <= x}) = k]

\* str.split(): the maximal runs of non-whitespace characters, in order
Split(cs) ==
    LET starts == {i \in DOMAIN cs : cs[i] \notin Space /\ (i = 1 \/ cs[i - 1] \in Space)}
        ends == {i \in DOMAIN cs : cs[i] \notin Space /\ (i = Len(cs) \/ cs[i + 1] \in Space)}
        st == Ascending(starts)
        en == Ascending(ends)
    IN [k \in 1..Cardinality(starts) |-> SubSeq(cs, st[k], en[k])]

\* " ".join(tokens)
RECURSIVE Join(_)
Join(toks) ==
    IF Len(toks) = 0 THEN <<>>
    ELSE IF Len(toks) = 1 THEN toks[1]
    ELSE toks[1] \o <<" ">> \o Join(Tail(toks))

StartsWith(cs, pre) == Len(cs) >= Len(pre) /\ SubSeq(cs, 1, Len(pre)) = pre

-----------------------------------------------------------------------------
(* Regular expressions (module re), by backtracking over a stack of the    *)
(* nodes still to match, in the order Python tries them.                   *)

Inf == -1

Set(cs) == [t |-> "set", cs |-> cs]
NotSet(cs) == [t |-> "nset", cs |-> cs]
Cat(xs) == [t |-> "cat", xs |-> xs]
Alt(xs) == [t |-> "alt", xs |-> xs]
Rep(x, lo, hi) == [t |-> "rep", x |-> x, lo |-> lo, hi |-> hi]
Opt(x) == Rep(x, 0, 1)
Star(x) == Rep(x, 0, Inf)
Plus(x) == Rep(x, 1, Inf)
WordB == [t |-> "wordb"]
EndA == [t |-> "end"]
BeginA == [t |-> "begin"]
Look(x) == [t |-> "look", x |-> x]

\* a literal, and a literal under re.IGNORECASE
Lit(s) == Cat([i \in 1..Len(s) |-> Set({SubSeq(s, i, i)})])
LitI(s) == Cat([i \in 1..Len(s) |->
                 Set({LowerChar(SubSeq(s, i, i)), UpperChar(SubSeq(s, i, i))})])

Dec(n) == IF n = Inf THEN Inf ELSE n - 1

IsWordAt(s, i) == i >= 1 /\ i <= Len(s) /\ s[i] \in Word

InClass(c, x) == IF x.t = "set" THEN c \in x.cs ELSE c \notin x.cs

\* how many characters from position i on are in the character class x
RunLen(s, i, x) ==
    LET stop == {j \in i..Len(s) : ~InClass(s[j], x)}
    IN IF stop = {} THEN Len(s) + 1 - i ELSE Min(stop) - i

\* A capturing group: the positions where it opens and closes are marked.
Open(k) == [t |-> "open", k |-> k]
Close(k) == [t |-> "close", k |-> k]
Group(k, x) == Cat(<<Open(k), x, Close(k)>>)

Fail == <<>>

\* The match of the nodes of stk at position i of s: Fail if there is none, else
\* <<the position after the match>> followed by the marks <<"open"/"close", k, position>>
\* of the groups passed on the way, the latest first.
RECURSIVE M(_, _, _)
M(s, i, stk) ==
    IF Len(stk) = 0 THEN <<i>>
    ELSE LET h == Head(stk)
             r == Tail(stk)
         IN CASE h.t = "set" ->
                    IF i <= Len(s) /\ s[i] \in h.cs THEN M(s, i + 1, r) ELSE Fail
              [] h.t = "nset" ->
                    IF i <= Len(s) /\ s[i] \notin h.cs THEN M(s, i + 1, r) ELSE Fail
              [] h.t = "cat" -> M(s, i, h.xs \o r)
              [] h.t = "alt" ->
                    IF Len(h.xs) = 0 THEN Fail
                    ELSE LET a == M(s, i, <<Head(h.xs)>> \o r)
                         IN IF a # Fail THEN a ELSE M(s, i, <<Alt(Tail(h.xs))>> \o r)
              [] h.t = "rep" /\ h.x.t \in {"set", "nset"} ->
                    \* a repeated character class: the longest count first
                    LET run == RunLen(s, i, h.x)
                        top == IF h.hi = Inf \/ run < h.hi THEN run ELSE h.hi
                        ok == {c \in h.lo..top : M(s, i + c, r) # Fail}
                    IN IF ok = {} THEN Fail ELSE M(s, i + Max(ok), r)
              [] h.t = "rep" /\ h.x.t \notin {"set", "nset"} ->
                    IF h.lo > 0 THEN M(s, i, <<h.x, Rep(h.x, h.lo - 1, Dec(h.hi))>> \o r)
                    ELSE IF h.hi = 0 THEN M(s, i, r)
                    ELSE LET a == M(s, i, <<h.x, Rep(h.x, 0, Dec(h.hi))>> \o r)
                         IN IF a # Fail THEN a ELSE M(s, i, r)
              [] h.t = "wordb" ->
                    IF IsWordAt(s, i - 1) # IsWordAt(s, i) THEN M(s, i, r) ELSE Fail
              [] h.t = "end" ->
                    IF i = Len(s) + 1 \/ (i = Len(s) /\ s[i] = "\n") THEN M(s, i, r) ELSE Fail
              [] h.t = "begin" -> IF i = 1 THEN M(s, i, r) ELSE Fail
              [] h.t = "look" -> IF M(s, i, <<h.x>>) # Fail THEN M(s, i, r) ELSE Fail
              [] h.t \in {"open", "close"} ->
                    LET a == M(s, i, r)
                    IN IF a = Fail THEN Fail ELSE Append(a, <<h.t, h.k, i>>)

\* the position where group k opens (t = "open") or closes in the match a
MarkOf(a, t, k) ==
    a[Min({j \in 2..Len(a) : a[j][1] = t /\ a[j][2] = k})][3]

\* match.group(k)
GroupText(s, a, k) == SubSeq(s, MarkOf(a, "open", k), MarkOf(a, "close", k) - 1)

\* The leftmost match of re in s from position pos on (re.search):
\* <<start, end, match>>, <<0, 0, Fail>> if there is none.
Search(re, s, pos) ==
    LET starts == {p \in pos..(Len(s) + 1) : M(s, p, <<re>>) # Fail}
    IN IF starts = {} THEN <<0, 0, Fail>>
       ELSE <<Min(starts), M(s, Min(starts), <<re>>)[1], M(s, Min(starts), <<re>>)>>

\* re.finditer: the spans <<start, end>> of the non-overlapping matches, in order
RECURSIVE FindIter(_, _, _)
FindIter(re, s, pos) ==
    LET m == Search(re, s, pos)
    IN IF m[1] = 0 THEN <<>>
       ELSE <<m>> \o FindIter(re, s, IF m[2] > m[1] THEN m[2] ELSE m[1] + 1)

\* s without the spans ms (re.sub with the empty replacement)
RECURSIVE Without(_, _, _)
Without(s, ms, pos) ==
    IF Len(ms) = 0 THEN SubSeq(s, pos, Len(s))
    ELSE SubSeq(s, pos, ms[1][1] - 1) \o Without(s, Tail(ms), ms[1][2])

Sub(re, s) == Without(s, FindIter(re, s, 1), 1)

\* re.sub(..., count=1)
Sub1(re, s) ==
    LET m == Search(re, s, 1) IN IF m[1] = 0 THEN s ELSE Without(s, <<m>>, 1)

-----------------------------------------------------------------------------
(* NameNormalizer._normalize                                               *)

WS == Set(Space)
UpperAZ == Set(Upper)
AnyAZ == Set(AsciiLetter)          \* [A-Z] under re.IGNORECASE

\* r"\s*[-/]\s*[A-Z]{2,}\s*-\s*[A-Z]{2}\s*\)?\s*$"
PartySuffixRe ==
    Cat(<<Star(WS), Set({"-", "/"}), Star(WS), Rep(UpperAZ, 2, Inf), Star(WS),
          Set({"-"}), Star(WS), Rep(UpperAZ, 2, 2), Star(WS), Opt(Set({")"})),
          Star(WS), EndA>>)

\* r"\s*\((?:Bloco|Partido|\w+/)?([A-Z]+)\s*-\s*([A-Z]{2})\)\s*$", re.IGNORECASE
PartyParenRe ==
    Cat(<<Star(WS), Set({"("}),
          Opt(Alt(<<LitI("Bloco"), LitI("Partido"), Cat(<<Plus(Set(Word)), Set({"/"})>>)>>)),
          Plus(AnyAZ), Star(WS), Set({"-"}), Star(WS), Rep(AnyAZ, 2, 2), Set({")"}),
          Star(WS), EndA>>)

titles == <<"sr", "sra", "dr", "dra", "deputado", "deputada", "senador", "senadora",
            "presidente">>

\* r"^" + re.escape(title) + r"\.?\s+", re.IGNORECASE
TitleRe(title) == Cat(<<BeginA, LitI(title), Opt(Set({"."})), Plus(WS)>>)

\* as StripTitle, but a title is only recognised when a space follows it
RECURSIVE StripTitle_SpaceOnly(_, _)
StripTitle_SpaceOnly(name, k) ==
    IF k > Len(titles) THEN name
    ELSE IF StartsWith(LowerCs(name), Chars(titles[k]) \o <<" ">>)
         THEN Strip(Sub1(TitleRe(titles[k]), name))
         ELSE StripTitle_SpaceOnly(name, k + 1)

\* the for loop over titles, from the title of index k on: the first title the
\* lowercased name starts with (followed by a space or a dot) is removed, then break
RECURSIVE StripTitle(_, _)
StripTitle(name, k) ==
    IF k > Len(titles) THEN name
    ELSE LET temp_name == LowerCs(name)
             title == Chars(titles[k])
         IN IF StartsWith(temp_name, title \o <<" ">>) \/ StartsWith(temp_name, title \o <<".">>)
            THEN Strip(Sub1(TitleRe(titles[k]), name))
            ELSE StripTitle(name, k + 1)

Punctuation == {".", ",", ";", ":", "!", "?", "(", ")", "\"", "\\"}

\* re.sub(r"[.,;:!?()\"\\]", "", name)
RemovePunctuation(cs) == Sub(Set(Punctuation), cs)

MinKeyLen == 2

\* the two trailing party/state patterns removed, each followed by strip()
StripParty(name) == Strip(Sub(PartyParenRe, Strip(Sub(PartySuffixRe, name))))

\* unidecode and lower, the punctuation removed, the whitespace collapsed
Fold(name) == Join(Split(RemovePunctuation(LowerCs(UnidecodeCs(name)))))

\* the character sequence _normalize works on, before the length test
NormalizeCs(name) == Fold(StripTitle(StripParty(Chars(name)), 1))

\* return name if len(name) >= 2 else None
LongEnough(cs) == IF Len(cs) < MinKeyLen THEN None ELSE Str(cs)

_normalize(name) == IF name = "" THEN "" ELSE LongEnough(NormalizeCs(name))

-----------------------------------------------------------------------------
(* fuzz.token_set_ratio (fuzzywuzzy), as called by get_canonical_name      *)

\* the characters of the texts, in the order of their code points
CodeSeq ==
    Chars("\t\n !\"(),-./0123456789:;<>?") \o UpperSeq \o Chars("\\_") \o LowerSeq
    \o AccUpperSeq \o AccLowerSeq
Ord(c) == IndexOf(CodeSeq, c)

\* utils.full_process(s, force_ascii=True): non-ASCII characters dropped, every
\* character that is not alphanumeric or "_" replaced by a space, lower(), strip()
full_process(cs) ==
    LET ascii == SelectSeq(cs, LAMBDA c : c \notin (AccUpper \cup AccLower))
        spaced == [i \in DOMAIN ascii |-> IF ascii[i] \in Word THEN ascii[i] ELSE " "]
    IN Strip(LowerCs(spaced))

\* a < b for Python strings (by code point, a proper prefix first)
LexLess(a, b) ==
    LET n == IF Len(a) < Len(b) THEN Len(a) ELSE Len(b)
        diff == {i \in 1..n : a[i] # b[i]}
    IN IF diff = {} THEN Len(a) < Len(b)
       ELSE Ord(a[Min(diff)]) < Ord(b[Min(diff)])

\* " ".join(sorted(tokens))
SortedJoin(tokens) ==
    Join([k \in 1..Cardinality(tokens) |->
            CHOOSE t \in tokens : Cardinality({u \in tokens : LexLess(u, t)}) = k - 1])

\* the length of a longest common subsequence of a and b, row by row:
\* prev[j + 1] is the length for the first i - 1 characters of a and the first j of b
RECURSIVE LcsFrom(_, _, _, _)
LcsFrom(a, b, i, prev) ==
    IF i > Len(a) THEN prev[Len(b) + 1]
    ELSE LET cur == [j \in 1..(Len(b) + 1) |->
                        Max({prev[j]} \cup {prev[k] + 1 : k \in {k \in 1..(j - 1) : b[k] = a[i]}})]
         IN LcsFrom(a, b, i + 1, SubSeq(cur, 1, Len(b) + 1))

Lcs(a, b) == LcsFrom(a, b, 1, [j \in 1..(Len(b) + 1) |-> 0])

\* the p with 2^p <= num / den < 2^(p + 1), for num > 0
RECURSIVE Log2Floor(_, _)
Log2Floor(num, den) ==
    IF num >= 2 * den THEN Log2Floor(num, 2 * den) + 1
    ELSE IF num < den THEN Log2Floor(2 * num, den) - 1
    ELSE 0

\* 2^j modulo n
RECURSIVE Pow2Mod(_, _)
Pow2Mod(j, n) == IF j = 0 THEN 1 % n ELSE (2 * Pow2Mod(j - 1, n)) % n

\* int(round(100 * d)) for the double d nearest to (2k + 1) / 200, where the exact
\* product is k + 1/2.  With 2^p <= (2k + 1) / 200 < 2^(p + 1), d is
\* (2k + 1) / 200 + (c / 25) * 2^(p - 52) for the c below, and 100 * d is
\* k + 1/2 + c * 2^(p - 50) before it is rounded to a double of exponent P: it
\* becomes k + 1/2 itself when |c| is at most 2^(P - p - 3) (then round takes the
\* even neighbour), and a double on the side of c otherwise
RoundHalfPercent(k) ==
    LET a == 2 * k + 1
        p == Log2Floor(a, 200)
        P == Log2Floor(a, 2)
        rest == (a * Pow2Mod(49 - p, 25)) % 25
        c == IF rest <= 12 THEN 0 - rest ELSE 25 - rest
        half_ulp == IF P - p = 6 THEN 8 ELSE 16
    IN IF c > half_ulp THEN k + 1
       ELSE IF 0 - c > half_ulp THEN k
       ELSE IF k % 2 = 0 THEN k ELSE k + 1

\* int(round(100 * (2.0 * m / t))), in double precision: 2.0 * m / t is the double
\* nearest to 2m/t, and only when 200m/t is exactly k + 1/2 can its error decide
intr(m, t) ==
    LET q == (200 * m) \div t
        r == (200 * m) % t
    IN IF 2 * r < t THEN q
       ELSE IF 2 * r > t THEN q + 1
       ELSE RoundHalfPercent(q)

\* fuzz.ratio: 2 * matches / (len(s1) + len(s2)) of the SequenceMatcher, in percent.
\* The matcher is the one of python-Levenshtein, the package the program asks for
\* next to fuzzywuzzy (graph_joining.py:250, "fuzzywuzzy[speedup]" at ner.py:483):
\* its matches are the characters of a longest common subsequence.  Without that
\* package fuzzywuzzy falls back on difflib, whose matching blocks can be fewer.
ratio(s1, s2) ==
    IF s1 = s2 THEN 100
    ELSE IF Len(s1) = 0 \/ Len(s2) = 0 THEN 0
    ELSE intr(Lcs(s1, s2), Len(s1) + Len(s2))

token_set_ratio(s1, s2) ==
    LET p1 == full_process(Chars(s1))
        p2 == full_process(Chars(s2))
        tokens1 == Range(Split(p1))
        tokens2 == Range(Split(p2))
        sorted_sect == SortedJoin(tokens1 \cap tokens2)
        sorted_1to2 == SortedJoin(tokens1 \ tokens2)
        sorted_2to1 == SortedJoin(tokens2 \ tokens1)
        combined_1to2 == Strip(sorted_sect \o <<" ">> \o sorted_1to2)
        combined_2to1 == Strip(sorted_sect \o <<" ">> \o sorted_2to1)
    IN IF Len(p1) = 0 \/ Len(p2) = 0 THEN 0
       ELSE Max({ratio(sorted_sect, combined_1to2),
                 ratio(sorted_sect, combined_2to1),
                 ratio(combined_1to2, combined_2to1)})

-----------------------------------------------------------------------------
(* IntegratedNERProcessor: the rule extractor                              *)

\* (?:\bO\s+SR\.|\bA\s+SRA\.), re.IGNORECASE
SpeakerArticleRe ==
    Alt(<<Cat(<<WordB, LitI("O"), Plus(WS), LitI("SR"), Set({"."})>>),
          Cat(<<WordB, LitI("A"), Plus(WS), LitI("SRA"), Set({"."})>>)>>)

\* (?:[^/]+/)?([A-Z]+)\s*-\s*([A-Z]{2})\), re.IGNORECASE: groups 2 and 3
PartyStateRe ==
    Cat(<<Opt(Cat(<<Plus(NotSet({"/"})), Set({"/"})>>)), Group(2, Plus(AnyAZ)), Star(WS),
          Set({"-"}), Star(WS), Group(3, Rep(AnyAZ, 2, 2)), Set({")"})>>)

\* r"(?:\bO\s+SR\.|\bA\s+SRA\.)\s+PRESIDENTE\s+\(([^.)]+)\.(?:[^/]+/)?([A-Z]+)\s*-\s*([A-Z]{2})\)"
parliamentary_presidente_regex ==
    Cat(<<SpeakerArticleRe, Plus(WS), LitI("PRESIDENTE"), Plus(WS), Set({"("}),
          Group(1, Plus(NotSet({".", ")"}))), Set({"."}), PartyStateRe>>)

\* r"(?:\bO\s+SR\.|\bA\s+SRA\.)\s+((?:[A-ZÀ-Ú]+\.?\s+)*[A-ZÀ-Ú]+)\s+\((?:[^/]+/)?([A-Z]+)\s*-\s*([A-Z]{2})\)"
parliamentary_other_regex ==
    Cat(<<SpeakerArticleRe, Plus(WS),
          Group(1, Cat(<<Star(Cat(<<Plus(Set(Letter)), Opt(Set({"."})), Plus(WS)>>)),
                         Plus(Set(Letter))>>)),
          Plus(WS), Set({"("}), PartyStateRe>>)

\* scores are kept in hundred-thousandths: one digit more than the four decimals
\* _group_similar_persons rounds them to
RuleScore == 100000

\* the entity of a rule match m = <<start, end, match>>: the span is the whole match,
\* at the offsets Python counts from 0 (the metadata field, which nothing reads, is
\* left out)
RuleEntity(text, m, prefix, source) ==
    [entity_group |-> "PESSOA",
     score |-> RuleScore,
     word |-> Str(prefix \o Strip(GroupText(text, m[3], 1)) \o <<" ">>
                  \o Strip(GroupText(text, m[3], 2)) \o <<"-">>
                  \o Strip(GroupText(text, m[3], 3))),
     start |-> m[1] - 1,
     end |-> m[2] - 1,
     source |-> source]

\* a variant of OverlapsAny that compares the starts only
OverlapsAny_StartsOnly(m, processed_spans) ==
    \E ps \in Range(processed_spans) : m[1] < ps[1] /\ ps[1] < m[2]

\* max(start, ps) < min(end, pe) for some processed span
OverlapsAny(m, processed_spans) ==
    \E ps \in Range(processed_spans) : Max({m[1], ps[1]}) < Min({m[2], ps[2]})

\* the matches of the second pattern that overlap no match of the first
OtherMatches(text, presidente) ==
    SelectSeq(FindIter(parliamentary_other_regex, text, 1),
              LAMBDA m : ~OverlapsAny(m, presidente))

PresidenteEntities(text, presidente) ==
    [k \in DOMAIN presidente |->
        RuleEntity(text, presidente[k], Chars("Presidente "), "rule_parliamentary_presidente")]

OtherEntities(text, other) ==
    [k \in DOMAIN other |-> RuleEntity(text, other[k], <<>>, "rule_parliamentary_other")]

RuleEntitiesOf(text, presidente) ==
    PresidenteEntities(text, presidente) \o OtherEntities(text, OtherMatches(text, presidente))

_rule_based_ner(text) ==
    RuleEntitiesOf(Chars(text), FindIter(parliamentary_presidente_regex, Chars(text), 1))

-----------------------------------------------------------------------------
(* IntegratedNERProcessor: the entities of the model, merging, duplicates   *)

\* text[a:b] for Python offsets 0 <= a
Slice(cs, a, b) == SubSeq(cs, a + 1, Min({b, Len(cs)}))

\* window_size=1000, stride=200
WindowSize == 1000
Stride == 200

\* The offsets at which the chunks of a text of text_len > 0 characters start:
\* num_chunks chunks, effective_window_size - effective_stride characters apart;
\* a chunk that would start at or after the end of the text is skipped
ChunkStarts(text_len) ==
    LET effective_window_size == Min({WindowSize, text_len})
        effective_stride == IF effective_window_size > 1
                            THEN Min({Stride, effective_window_size - 1}) ELSE 0
        step == effective_window_size - effective_stride
        num_chunks == (Max({1, text_len - effective_stride}) + step - 1) \div step
    IN SelectSeq([i \in 1..num_chunks |-> (i - 1) * step],
                 LAMBDA chunk_start :
                     chunk_start < Min({chunk_start + effective_window_size, text_len}))

\* The entities of the chunk that starts at chunk_start, on which the transformer
\* pipeline answers chunk_entities_raw: the offsets are moved by chunk_start, an
\* entity is kept when 0 <= start < end <= len(original_text), and its word is read
\* from original_text
ExtractEntities(original_text, chunk_start, chunk_entities_raw) ==
    LET kept == SelectSeq(chunk_entities_raw,
                          LAMBDA ent : /\ 0 <= ent.start + chunk_start
                                       /\ ent.start < ent.end
                                       /\ ent.end + chunk_start <= Len(original_text))
    IN [k \in DOMAIN kept |->
          [entity_group |-> kept[k].entity_group,
           score |-> kept[k].score,
           word |-> Str(Slice(original_text, kept[k].start + chunk_start,
                              kept[k].end + chunk_start)),
           start |-> kept[k].start + chunk_start,
           end |-> kept[k].end + chunk_start,
           source |-> "model"]]

\* the loop over the chunks
RECURSIVE ExtractChunks(_, _, _)
ExtractChunks(original_text, chunk_starts, chunk_entities_raw) ==
    IF Len(chunk_starts) = 0 THEN <<>>
    ELSE ExtractEntities(original_text, Head(chunk_starts), chunk_entities_raw)
             \o ExtractChunks(original_text, Tail(chunk_starts), chunk_entities_raw)

\* The entities _extract_entities_with_overlap returns for a text on every chunk of
\* which the transformer pipeline answers chunk_entities_raw (a text of up to
\* window_size characters is one chunk, at offset 0)
_extract_entities_with_overlap(text, original_text, chunk_entities_raw) ==
    IF Len(text) = 0 THEN <<>>
    ELSE ExtractChunks(Chars(original_text), ChunkStarts(Len(text)), chunk_entities_raw)

\* list.sort / sorted: stable, Less(a, b) is key(a) < key(b)
StableSort(seq, Less(_, _)) ==
    LET before(k) == {j \in DOMAIN seq :
                        Less(seq[j], seq[k]) \/ (~Less(seq[k], seq[j]) /\ j < k)}
    IN [r \in DOMAIN seq |-> seq[CHOOSE k \in DOMAIN seq : Cardinality(before(k)) = r - 1]]

\* str.isupper(): there is a cased character and no lowercase one
IsUpper(word) ==
    /\ \E c \in Range(Chars(word)) : c \in Letter
    /\ \A c \in Range(Chars(word)) : c \notin Lower \cup AccLower

should_merge(last, entity) ==
    /\ entity.entity_group = last.entity_group
    /\ entity.start <= last.end + 1
    /\ (IsUpper(entity.word) \/ IsUpper(last.word) \/ entity.start <= last.end)

\* last with entity merged into it: the part of the word past the overlap is
\* appended (the whole word after a space when the two only touch), the later end
\* and the lower score are kept
MergedWith(last, entity, overlap) ==
    [last EXCEPT
        !.word = IF overlap >= 0
                 THEN last.word \o Str(Slice(Chars(entity.word), overlap, Len(entity.word)))
                 ELSE last.word \o " " \o entity.word,
        !.end = Max({last.end, entity.end}),
        !.score = Min({last.score, entity.score})]

\* the first loop of _merge_adjacent_entities
RECURSIVE MergeLoop(_, _)
MergeLoop(entities, merged) ==
    IF Len(entities) = 0 THEN merged
    ELSE IF Len(merged) > 0 /\ should_merge(merged[Len(merged)], Head(entities))
    THEN MergeLoop(Tail(entities),
                   [merged EXCEPT ![Len(merged)] =
                       MergedWith(merged[Len(merged)], Head(entities),
                                  merged[Len(merged)].end - Head(entities).start)])
    ELSE MergeLoop(Tail(entities), Append(merged, Head(entities)))

\* a variant of should_join that joins the spans that touch instead of the spans
\* one character apart
should_join_Touching(last, ent) ==
    ent.entity_group = last.entity_group /\ ent.start - last.end = 0

\* a second loop that joins nothing
should_join_Never(last, ent) == FALSE

should_join(last, ent) ==
    ent.entity_group = last.entity_group /\ ent.start - last.end = 1

JoinedWith(last, ent) ==
    [last EXCEPT !.word = last.word \o " " \o ent.word,
                 !.end = ent.end,
                 !.score = Min({last.score, ent.score})]

\* the second loop of _merge_adjacent_entities
RECURSIVE JoinLoop(_, _)
JoinLoop(merged, joined) ==
    IF Len(merged) = 0 THEN joined
    ELSE IF Len(joined) > 0 /\ should_join(joined[Len(joined)], Head(merged))
    THEN JoinLoop(Tail(merged),
                  [joined EXCEPT ![Len(joined)] = JoinedWith(joined[Len(joined)], Head(merged))])
    ELSE JoinLoop(Tail(merged), Append(joined, Head(merged)))

ByStart(a, b) == a.start < b.start

_merge_adjacent_entities(entities) ==
    JoinLoop(MergeLoop(StableSort(entities, ByStart), <<>>), <<>>)

\* the entities that are the first of their span in seq
FirstOfSpan(seq) ==
    LET first == {k \in DOMAIN seq :
                    \A j \in 1..(k - 1) : <<seq[j].start, seq[j].end>> # <<seq[k].start, seq[k].end>>}
    IN [r \in 1..Cardinality(first) |-> seq[Ascending(first)[r]]]

ByScoreDescending(a, b) == a.score > b.score

_remove_duplicate_spans(entities) ==
    StableSort(FirstOfSpan(StableSort(entities, ByScoreDescending)), ByStart)

-----------------------------------------------------------------------------
(* IntegratedNERProcessor: grouping the person entities                    *)

SimilarThreshold == 85

\* lower(), strip(), the punctuation removed, the whitespace collapsed
_normalize_for_comparison(name) ==
    Str(Join(Split(RemovePunctuation(Strip(LowerCs(Chars(name)))))))

SimilarNorms(norm1, norm2) ==
    norm1 # "" /\ norm2 # "" /\ token_set_ratio(norm1, norm2) >= SimilarThreshold

_is_similar(name1, name2) ==
    SimilarNorms(_normalize_for_comparison(name1), _normalize_for_comparison(name2))

\* key=lambda x: (-len(x["word"]), x["word"])
ByLengthThenWord(a, b) ==
    \/ Len(a.word) > Len(b.word)
    \/ Len(a.word) = Len(b.word) /\ LexLess(Chars(a.word), Chars(b.word))

\* a position that keeps every decimal of the score
PosInfo_Unrounded(entity) == <<entity.start, entity.end, entity.score>>

\* round(x, 4) for the double x nearest to score / 100000 when score ends in 5:
\* score / 100000 is a / 20000 with a odd, and with 2^p <= a / 20000 < 2^(p + 1) the
\* double is the multiple of 2^(p - 52) nearest to it, which lies below it when
\* a * 2^(47 - p) leaves less than half of 625 as remainder and above it when it
\* leaves more; round goes to that side, and to the even digit when the double is
\* a / 20000 itself
RoundTie4(score) ==
    LET j == score \div 10
        a == 2 * j + 1
        p == Log2Floor(a, 20000)
        rest == (a * Pow2Mod(47 - p, 625)) % 625
    IN IF rest = 0 THEN (IF j % 2 = 0 THEN 10 * j ELSE 10 * j + 10)
       ELSE IF 2 * rest < 625 THEN 10 * j
       ELSE 10 * j + 10

\* round(score, 4), on the double the score is: the nearest multiple of 0.0001
Round4(score) ==
    LET down == (score \div 10) * 10
        rest == score % 10
    IN IF rest < 5 THEN down
       ELSE IF rest > 5 THEN down + 10
       ELSE RoundTie4(score)

\* (entity["start"], entity["end"], round(entity.get("score", 0.0), 4))
PosInfo(entity) == <<entity.start, entity.end, Round4(entity.score)>>

\* if pos_info not in positions: positions.append(pos_info)
AppendNew(positions, pos_info) ==
    IF pos_info \in Range(positions) THEN positions ELSE Append(positions, pos_info)

RECURSIVE ExtendNew(_, _)
ExtendNew(positions, existing) ==
    IF Len(existing) = 0 THEN positions
    ELSE ExtendNew(AppendNew(positions, Head(existing)), Tail(existing))

\* The dict `grouped` is the sequence of its items [name, positions], in insertion
\* order.  pos_info joins the positions of the group called name, if there is one.
AddTo(grouped, name, pos_info) ==
    [k \in DOMAIN grouped |->
        IF grouped[k].name = name
        THEN [grouped[k] EXCEPT !.positions = AppendNew(@, pos_info)]
        ELSE grouped[k]]

\* a variant of MoveGroup that gives the k-th group its new name where it stands
MoveGroup_InPlace(grouped, k, chosen_canonical) ==
    [grouped EXCEPT ![k].name = chosen_canonical]

\* grouped.pop(canonical) for the k-th group, and its positions moved to the group
\* chosen_canonical, which is created (last in the dict) when it is not there
MoveGroup(grouped, k, chosen_canonical) ==
    LET rest == [j \in 1..(Len(grouped) - 1) |-> IF j < k THEN grouped[j] ELSE grouped[j + 1]]
    IN IF \E j \in DOMAIN rest : rest[j].name = chosen_canonical
       THEN [j \in DOMAIN rest |->
               IF rest[j].name = chosen_canonical
               THEN [rest[j] EXCEPT !.positions = ExtendNew(@, grouped[k].positions)]
               ELSE rest[j]]
       ELSE Append(rest, [name |-> chosen_canonical,
                          positions |-> ExtendNew(<<>>, grouped[k].positions)])

\* every name that mapped to canonical, and canonical itself, now map to chosen_canonical
Remap(name_map, canonical, chosen_canonical) ==
    [w \in DOMAIN name_map \cup {canonical} |->
        IF w = canonical THEN chosen_canonical
        ELSE IF name_map[w] = canonical THEN chosen_canonical
        ELSE name_map[w]]

\* raw_word is similar to the k-th group: the longer of the two names (raw_word when
\* they are as long) becomes the name of the group
JoinGroup(st, entity, k, canonical, chosen_canonical) ==
    IF chosen_canonical # canonical
    THEN [grouped |-> AddTo(MoveGroup(st.grouped, k, chosen_canonical),
                            chosen_canonical, PosInfo(entity)),
          name_map |-> (entity.word :> chosen_canonical)
                       @@ Remap(st.name_map, canonical, chosen_canonical)]
    ELSE [grouped |-> AddTo(st.grouped, chosen_canonical, PosInfo(entity)),
          name_map |-> (entity.word :> chosen_canonical) @@ st.name_map]

\* the groups whose name raw_word is similar to
SimilarGroups(grouped, raw_word) ==
    {k \in DOMAIN grouped : _is_similar(raw_word, grouped[k].name)}

\* the rest of the loop body, given the groups similar to the word: the first of
\* them in the order of the dict is joined; with none the word opens a group
GroupNewWord(st, entity, similar) ==
    IF similar = {}
    THEN [grouped |-> Append(st.grouped, [name |-> entity.word,
                                          positions |-> <<PosInfo(entity)>>]),
          name_map |-> (entity.word :> entity.word) @@ st.name_map]
    ELSE JoinGroup(st, entity, Min(similar), st.grouped[Min(similar)].name,
                   IF Len(entity.word) >= Len(st.grouped[Min(similar)].name)
                   THEN entity.word ELSE st.grouped[Min(similar)].name)

\* one pass of the loop of _group_similar_persons
GroupEntity(st, entity) ==
    IF entity.word = "" THEN st
    ELSE IF entity.word \in DOMAIN st.name_map
    THEN [st EXCEPT !.grouped = AddTo(@, st.name_map[entity.word], PosInfo(entity))]
    ELSE GroupNewWord(st, entity, SimilarGroups(st.grouped, entity.word))

RECURSIVE GroupLoop(_, _)
GroupLoop(st, sorted_entities) ==
    IF Len(sorted_entities) = 0 THEN st
    ELSE GroupLoop(GroupEntity(st, Head(sorted_entities)), Tail(sorted_entities))

\* sorted(list(set(positions)), key=lambda x: x[0]): the positions in the order of
\* their starts, those with the same start in any order
StartOrders(positions) ==
    IF Len(positions) <= 1 THEN {positions}
    ELSE {q \in [DOMAIN positions -> Range(positions)] :
            /\ Range(q) = Range(positions)
            /\ \A i, j \in DOMAIN q : i < j => q[i][1] <= q[j][1]}

\* final_grouped_results: the groups that have positions, each with its positions
\* put in order
RECURSIVE FinalGroups(_)
FinalGroups(grouped) ==
    IF Len(grouped) = 0 THEN {<<>>}
    ELSE IF Len(Head(grouped).positions) = 0 THEN FinalGroups(Tail(grouped))
    ELSE {<<[name |-> Head(grouped).name, positions |-> q]>> \o rest :
            q \in StartOrders(Head(grouped).positions), rest \in FinalGroups(Tail(grouped))}

\* the dicts _group_similar_persons can return
_group_similar_persons(entities) ==
    FinalGroups(GroupLoop([grouped |-> <<>>, name_map |-> <<>>],
                          StableSort(entities, ByLengthThenWord)).grouped)

\* r"<\/?[A-Z]+>"
CleanTagRe == Cat(<<Set({"<"}), Opt(Set({"/"})), Plus(UpperAZ), Set({">"})>>)

\* normalize("NFC", text) leaves the precomposed characters of the alphabet as they
\* are; the tags are removed
_clean_text(text) == Str(Sub(CleanTagRe, Chars(text)))

PessoaOnly(entities) == SelectSeq(entities, LAMBDA ent : ent.entity_group = "PESSOA")

\* process_text from the entities on: the rule entities are added, the persons are
\* kept, merged, freed of duplicate spans and grouped
GroupPersons(pessoa_entities) ==
    IF Len(pessoa_entities) = 0 THEN {<<>>}
    ELSE _group_similar_persons(_remove_duplicate_spans(_merge_adjacent_entities(pessoa_entities)))

ProcessEntities(clean_text, raw_entities) ==
    IF Len(raw_entities) = 0 THEN {<<>>}
    ELSE GroupPersons(PessoaOnly(raw_entities \o _rule_based_ner(clean_text)))

\* The dicts process_text can return for a text on which the transformer pipeline
\* answers chunk_entities_raw.
process_text(text, chunk_entities_raw) ==
    IF Len(Strip(Chars(text))) = 0 THEN {<<>>}
    ELSE ProcessEntities(_clean_text(text),
                         _extract_entities_with_overlap(_clean_text(text), text,
                                                        chunk_entities_raw))

-----------------------------------------------------------------------------
(* create_annotations.create_annotated_text                                *)

\* the tuples (position, is_start, entity_name) of the occurrences of one entity
RECURSIVE TagPositions(_, _)
TagPositions(entity_name, occurrences) ==
    IF Len(occurrences) = 0 THEN <<>>
    ELSE <<<<Head(occurrences)[1], TRUE, entity_name>>,
           <<Head(occurrences)[2], FALSE, entity_name>>>>
         \o TagPositions(entity_name, Tail(occurrences))

RECURSIVE AllTagPositions(_)
AllTagPositions(grouped_entities) ==
    IF Len(grouped_entities) = 0 THEN <<>>
    ELSE TagPositions(Head(grouped_entities).name, Head(grouped_entities).positions)
         \o AllTagPositions(Tail(grouped_entities))

\* a < b for the tuples (position, is_start, entity_name): False < True
TupleLess(a, b) ==
    \/ a[1] < b[1]
    \/ a[1] = b[1] /\ ~a[2] /\ b[2]
    \/ a[1] = b[1] /\ a[2] = b[2] /\ LexLess(Chars(a[3]), Chars(b[3]))

TupleGreater(a, b) == TupleLess(b, a)

TagOf(position) ==
    IF position[2] THEN "<PESSOA:" \o position[3] \o ">" ELSE "</PESSOA>"

\* annotated_text[:pos] + tag + annotated_text[pos:]
InsertAt(annotated_text, pos, tag) ==
    Slice(annotated_text, 0, pos) \o Chars(tag) \o Slice(annotated_text, pos, Len(annotated_text))

RECURSIVE InsertTags(_, _)
InsertTags(annotated_text, positions) ==
    IF Len(positions) = 0 THEN annotated_text
    ELSE InsertTags(InsertAt(annotated_text, Head(positions)[1], TagOf(Head(positions))),
                    Tail(positions))

\* the tags are inserted from the last position to the first
create_annotated_text(original_text, grouped_entities) ==
    Str(InsertTags(Chars(original_text),
                   StableSort(AllTagPositions(grouped_entities), TupleGreater)))

-----------------------------------------------------------------------------
(* The raw names of the session                                            *)

SessionNames ==
    {"", "S.", "Soraya", "SORAYA THRONICKE", "Soraya Santos", "Soraya Vieira Thronicke",
     "Wagner", "Jacques Vagner", "Jaques Wagner", "JAQUES WAGNER"}

-----------------------------------------------------------------------------
(* Annotated documents: split_into_speeches and the <PESSOA:name> tags     *)

AnyLetter == Set(Letter)           \* [A-ZÀ-Ú] under re.IGNORECASE

\* r"(?=\b(?:O|A)\s+SR(?:A)?\.\s+(?:PRESIDENTE|DEPUTADO|DEPUTADA|SENADOR|SENADORA|DR|DRA
\*      |[A-ZÀ-Ú]+(?:\.\s*)?)\b)", re.IGNORECASE
SpeakerIntroRe ==
    Look(Cat(<<WordB, Alt(<<LitI("O"), LitI("A")>>), Plus(WS), LitI("SR"), Opt(LitI("A")),
               Set({"."}), Plus(WS),
               Alt(<<LitI("PRESIDENTE"), LitI("DEPUTADO"), LitI("DEPUTADA"), LitI("SENADOR"),
                     LitI("SENADORA"), LitI("DR"), LitI("DRA"),
                     Cat(<<Plus(AnyLetter), Opt(Cat(<<Set({"."}), Star(WS)>>))>>)>>),
               WordB>>))

\* a variant of SplitAt that cuts at the first match only (maxsplit=1)
SplitAt_FirstCut(re, s) ==
    LET matches == {p \in 1..(Len(s) + 1) : M(s, p, <<re>>) # Fail}
        cuts == <<1>> \o Ascending(IF matches = {} THEN {} ELSE {Min(matches)})
                     \o <<Len(s) + 1>>
    IN [k \in 1..(Len(cuts) - 1) |-> SubSeq(s, cuts[k], cuts[k + 1] - 1)]

\* re.split on the (empty) matches of a look-ahead: the piece before the first
\* match, the pieces between the matches and the piece after the last one.  The
\* first piece is empty when the text begins with a match, and the empty text
\* gives one empty piece
SplitAt(re, s) ==
    LET cuts == <<1>> \o Ascending({p \in 1..(Len(s) + 1) : M(s, p, <<re>>) # Fail})
                     \o <<Len(s) + 1>>
    IN [k \in 1..(Len(cuts) - 1) |-> SubSeq(s, cuts[k], cuts[k + 1] - 1)]

\* [s.strip() for s in speeches if s and s.strip()]: the speeches of a text,
\* stripped; empty and whitespace-only pieces are dropped
split_into_speeches(text) ==
    LET pieces == SplitAt(SpeakerIntroRe, Chars(text))
        kept == SelectSeq(pieces, LAMBDA piece : Len(Strip(piece)) > 0)
    IN [k \in DOMAIN kept |-> Str(Strip(kept[k]))]

\* r"<PESSOA:([^>]+)>"
PessoaTagRe == Cat(<<Lit("<PESSOA:"), Plus(NotSet({">"})), Set({">"})>>)

\* re.findall(r"<PESSOA:([^>]+)>", speech_text): the names of the tags, in order
PessoaTagNames(speech_text) ==
    LET cs == Chars(speech_text)
        ms == FindIter(PessoaTagRe, cs, 1)
    IN [k \in DOMAIN ms |-> Str(SubSeq(cs, ms[k][1] + 8, ms[k][2] - 2))]

DocA == "O SR. PRESIDENTE <PESSOA:Jaques Wagner> saúda a Senadora <PESSOA:Soraya>."
DocB == "O SR. PRESIDENTE <PESSOA:JAQUES WAGNER> saúda <PESSOA:SORAYA THRONICKE>."
DocC ==
    "Ata da sessão. A SRA. SORAYA <PESSOA:Soraya></PESSOA> cita <PESSOA:SORAYA THRONICKE> e "
    \o "<PESSOA:Wagner>. O SR. WAGNER <PESSOA:Wagner> responde a <PESSOA:Soraya> e a "
    \o "<PESSOA:Soraya>. O Sr. Presidente encerra."
DocD == "A SRA. PRESIDENTE <PESSOA:Soraya Santos> chama <PESSOA:Jaques Wagner>, <PESSOA:Soraya>."

DocTexts == {DocA, DocB, DocC, DocD}

\* the names in the tags of the speeches of the texts
TagNamesOf(texts) ==
    UNION {Range(PessoaTagNames(speech_text)) :
             speech_text \in UNION {Range(split_into_speeches(text)) : text \in texts}}

Keys == Range(NormKey) \ {"", None}

\* The values of the two pure functions the resolver calls, on the raw names the
\* run can meet: NormKey[r] is self._normalize(r) and Score[<<a, b>>] is
\* fuzz.token_set_ratio(a, b).  They are computed once, in the initial state.
Tables(names) ==
    /\ NormKey = [r \in names |-> _normalize(r)]
    /\ Score = [p \in Keys \X Keys |-> token_set_ratio(p[1], p[2])]

-----------------------------------------------------------------------------
(* NameNormalizer                                                          *)

MatchThreshold == 85
ClearMargin == 10

\* NameNormalizer.__init__
NewNormalizer == [norm_to_canonical |-> <<>>, entries |-> <<>>, conflicts |-> {}]

\* the existing keys scoring at least 85 against normalized_name, with their scores
\* (the for loop of get_canonical_name; the keys in conflicts are skipped)
PotentialMatches(n, normalized_name) ==
    {<<existing_norm, Score[<<normalized_name, existing_norm>>]>> :
        existing_norm \in {k \in DOMAIN n.norm_to_canonical :
                              /\ k \notin n.conflicts
                              /\ Score[<<normalized_name, k>>] >= MatchThreshold}}

\* a max that takes any name of the set, whatever its length
LongestNames_Any(names) == names

\* max(original_names, key=len): the first longest name in the iteration order of
\* the set, which depends on the hash seed of the run: any of the longest names
LongestNames(names) == {x \in names : \A y \in names : Len(x) >= Len(y)}

Outcome(ret, branch, n) == [ret |-> ret, branch |-> branch, n |-> n]

\* "if not normalized_name: return original_name"
NormalizationFailed_ReturnsKey(n, original_name, normalized_name) ==
    {Outcome(normalized_name, "normalization_failed", n)}

NormalizationFailed(n, original_name, normalized_name) ==
    {Outcome(original_name, "normalization_failed", n)}

\* "if normalized_name in self.conflicts: return original_name"
KnownConflict_ReturnsKey(n, original_name, normalized_name) ==
    {Outcome(normalized_name, "known_conflict", n)}

\* a return on a known conflict key that takes the key out of the conflicts
KnownConflict_Forgets(n, original_name, normalized_name) ==
    {Outcome(original_name, "known_conflict", [n EXCEPT !.conflicts = @ \ {normalized_name}])}

KnownConflict(n, original_name, normalized_name) ==
    {Outcome(original_name, "known_conflict", n)}

\* a key hit that keeps only the name just passed as the variants of the record
KnownKey_ForgetsVariants(n, original_name, normalized_name) ==
    LET id == n.norm_to_canonical[normalized_name]
    IN {Outcome(original_name, "known_key",
                [n EXCEPT !.entries[id] = [canonical_name |-> original_name,
                                           original_names |-> {original_name}]])}

\* a key hit that returns the name passed
KnownKey_ReturnsName(n, original_name, normalized_name) ==
    LET id == n.norm_to_canonical[normalized_name]
        canonical_entry == n.entries[id]
        canonical_name == IF Len(original_name) > Len(canonical_entry.canonical_name)
                          THEN original_name ELSE canonical_entry.canonical_name
    IN {Outcome(original_name, "known_key",
                [n EXCEPT !.entries[id] =
                    [canonical_name |-> canonical_name,
                     original_names |-> canonical_entry.original_names \cup {original_name}]])}

\* "if normalized_name in self.norm_to_canonical": the name joins the record of the
\* key and replaces its canonical name if it is strictly longer
KnownKey(n, original_name, normalized_name) ==
    LET id == n.norm_to_canonical[normalized_name]
        canonical_entry == n.entries[id]
        canonical_name == IF Len(original_name) > Len(canonical_entry.canonical_name)
                          THEN original_name ELSE canonical_entry.canonical_name
    IN {Outcome(canonical_name, "known_key",
                [n EXCEPT !.entries[id] =
                    [canonical_name |-> canonical_name,
                     original_names |-> canonical_entry.original_names \cup {original_name}]])}

\* Case 1: a new record under normalized_name
NewCanonical(n, original_name, normalized_name) ==
    {Outcome(original_name, "new",
             [n EXCEPT !.entries = Append(@, [canonical_name |-> original_name,
                                              original_names |-> {original_name}]),
                       !.norm_to_canonical = (normalized_name :> (Len(n.entries) + 1)) @@ @])}

\* Case 2 and the first half of Case 3: original_name joins the record of
\* matched_norm, the canonical name is recomputed and normalized_name becomes one
\* more key of that record
MergeInto_ReturnsOriginal(n, original_name, normalized_name, matched_norm, branch) ==
    LET id == n.norm_to_canonical[matched_norm]
        names == n.entries[id].original_names \cup {original_name}
    IN {Outcome(original_name, branch,
                [n EXCEPT !.entries[id] = [canonical_name |-> new_canonical,
                                           original_names |-> names],
                          !.norm_to_canonical = (normalized_name :> id) @@ @]) :
           new_canonical \in LongestNames(names)}

MergeInto(n, original_name, normalized_name, matched_norm, branch) ==
    LET id == n.norm_to_canonical[matched_norm]
        names == n.entries[id].original_names \cup {original_name}
    IN {Outcome(new_canonical, branch,
                [n EXCEPT !.entries[id] = [canonical_name |-> new_canonical,
                                           original_names |-> names],
                          !.norm_to_canonical = (normalized_name :> id) @@ @]) :
           new_canonical \in LongestNames(names)}

\* a conflict that also gives the key a record of its own
Conflict_AlsoMapped(n, original_name, normalized_name) ==
    {Outcome(original_name, "conflict",
             [n EXCEPT !.conflicts = @ \cup {normalized_name},
                       !.entries = Append(@, [canonical_name |-> original_name,
                                              original_names |-> {original_name}]),
                       !.norm_to_canonical = (normalized_name :> (Len(n.entries) + 1)) @@ @])}

\* the second half of Case 3: the key is recorded as a conflict
Conflict(n, original_name, normalized_name) ==
    {Outcome(original_name, "conflict", [n EXCEPT !.conflicts = @ \cup {normalized_name}])}

\* potential_matches.sort(key=score, reverse=True): the best match and the next one
\* (the order of equal scores is the order of the keys in the map; it does not matter
\* to the code, which merges only when the best score is at least 10 above the next)
TopMatch(potential_matches) ==
    CHOOSE m \in potential_matches : \A o \in potential_matches : m[2] >= o[2]

SecondMatch(potential_matches) == TopMatch(potential_matches \ {TopMatch(potential_matches)})

\* the outcomes of get_canonical_name(original_name) on the normalizer n: the value
\* returned, the return statement taken, the normalizer afterwards
get_canonical_name(n, original_name) ==
    LET normalized_name == NormKey[original_name]
        potential_matches == PotentialMatches(n, normalized_name)
    IN IF original_name = "" THEN {Outcome(None, "empty", n)}
       ELSE IF normalized_name \in {None, ""}
       THEN NormalizationFailed(n, original_name, normalized_name)
       ELSE IF normalized_name \in n.conflicts
       THEN KnownConflict(n, original_name, normalized_name)
       ELSE IF normalized_name \in DOMAIN n.norm_to_canonical
       THEN KnownKey(n, original_name, normalized_name)
       ELSE IF potential_matches = {}
       THEN NewCanonical(n, original_name, normalized_name)
       ELSE IF Cardinality(potential_matches) = 1
       THEN MergeInto(n, original_name, normalized_name,
                      TopMatch(potential_matches)[1], "one_match")
       ELSE IF TopMatch(potential_matches)[2] - SecondMatch(potential_matches)[2]
                  >= ClearMargin
       THEN MergeInto(n, original_name, normalized_name,
                      TopMatch(potential_matches)[1], "clear_top_match")
       ELSE Conflict(n, original_name, normalized_name)

\* Case 2 and Case 3 as the code runs them, on the list potential_matches: the loop
\* over self.norm_to_canonical.items() appends the matches in the iteration order of
\* the map, so the list is some ordering of PotentialMatches
MatchLists(n, normalized_name) ==
    LET matches == PotentialMatches(n, normalized_name)
    IN {list \in [1..Cardinality(matches) -> matches] : Range(list) = matches}

HigherScore(a, b) == a[2] > b[2]

\* potential_matches.sort(key=lambda x: x[1], reverse=True), a stable sort
SortedMatches(potential_matches) == StableSort(potential_matches, HigherScore)

\* a decision that merges into the first match of the sorted list whatever the margin
DecideOnList_NoMargin(n, original_name, normalized_name, potential_matches) ==
    MergeInto(n, original_name, normalized_name,
              SortedMatches(potential_matches)[1][1], "clear_top_match")

\* "if potential_matches[0][1] - potential_matches[1][1] >= 10" on the sorted list
DecideOnList(n, original_name, normalized_name, potential_matches) ==
    LET sorted == SortedMatches(potential_matches)
    IN IF Len(sorted) = 1
       THEN MergeInto(n, original_name, normalized_name, sorted[1][1], "one_match")
       ELSE IF sorted[1][2] - sorted[2][2] >= ClearMargin
       THEN MergeInto(n, original_name, normalized_name, sorted[1][1], "clear_top_match")
       ELSE Conflict(n, original_name, normalized_name)

-----------------------------------------------------------------------------
(* A session of calls of get_canonical_name on one normalizer              *)

NoCall == "<no call>"

vars == <<normalizer, last_raw, last_ret, last_branch, repeated, passed,
          file_list, file_idx, speeches, graph, node_id_counter, seg_log, done,
          name_parts, normalized, NormKey, Score,
          pc, doc_text, model_answer, stage_entities, rule_entities, grouped_results,
          annotated, cli>>

tables == <<NormKey, Score>>
normalize_vars == <<name_parts, normalized>>
pipeline_vars == <<pc, doc_text, model_answer, stage_entities, rule_entities,
                   grouped_results, annotated>>

session_vars == <<last_raw, last_ret, last_branch, repeated, passed>>
graph_vars == <<file_list, file_idx, speeches, graph, node_id_counter, seg_log, done>>

\* nx.DiGraph(): the nodes, and the weight of every edge <<u, v>>
NewGraph == [nodes |-> {}, weight |-> <<>>]

NoSession ==
    /\ last_raw = NoCall
    /\ last_ret = NoCall
    /\ last_branch = NoCall
    /\ repeated = FALSE
    /\ passed = {}

NoParts == [article |-> "", title |-> "", name |-> "", suffix |-> ""]

NoNormalize ==
    /\ name_parts = NoParts
    /\ normalized = NoCall

NoPipeline ==
    /\ pc = "none"
    /\ doc_text = ""
    /\ model_answer = <<>>
    /\ stage_entities = <<>>
    /\ rule_entities = <<>>
    /\ grouped_results = <<>>
    /\ annotated = ""

NoCli ==
    cli = [command |-> "none", argv_given |-> FALSE, input_dir_exists |-> FALSE,
           output_dir_exists |-> FALSE, txt_files |-> 0, exited |-> FALSE,
           exit_status |-> 0, output_written |-> FALSE]

NoGraph ==
    /\ file_list = <<>>
    /\ file_idx = 1
    /\ speeches = <<>>
    /\ graph = NewGraph
    /\ node_id_counter = 0
    /\ seg_log = <<>>
    /\ done = FALSE

Init ==
    /\ Tables(SessionNames)
    /\ normalizer = NewNormalizer
    /\ NoSession
    /\ NoGraph
    /\ NoNormalize
    /\ NoPipeline
    /\ NoCli

Call(original_name) ==
    \E o \in get_canonical_name(normalizer, original_name) :
        /\ normalizer' = o.n
        /\ last_raw' = original_name
        /\ last_ret' = o.ret
        /\ last_branch' = o.branch
        /\ repeated' = (original_name = last_raw)
        /\ passed' = passed \cup {original_name}
        /\ UNCHANGED <<graph_vars, normalize_vars, tables, pipeline_vars, cli>>

Next == \E original_name \in SessionNames : Call(original_name)

Spec == Init /\ [][Next]_vars

\* A session on names of which several normalize to one key: a name with a title
\* and the same name without it
AliasNames == {"Wagner", "Jaques Wagner", "JAQUES WAGNER", "Senador Jaques Wagner",
               "Soraya", "Soraya Santos", "SORAYA THRONICKE", "Sra. Soraya Santos"}

InitAliases ==
    /\ Tables(AliasNames)
    /\ normalizer = NewNormalizer
    /\ NoSession
    /\ NoGraph
    /\ NoNormalize
    /\ NoPipeline
    /\ NoCli

NextAliases == \E original_name \in AliasNames : Call(original_name)

SpecAliases == InitAliases /\ [][NextAliases]_vars

-----------------------------------------------------------------------------
(* _normalize on its own: one call, on a name put together from an         *)
(* article, a title, a person's name and a party/state suffix              *)

Articles == {"", "O ", "A "}
TitleForms == {"", "SR. ", "Sra. ", "dr ", "DEPUTADA ", "Senador.  ", "PRESIDENTE ", "SR."}
PersonNames == {"JOÃO DA SILVA", "Soraya  Thronicke", "José \"Zé\" Conceição, o Moço",
                "Ângela", "S"}
Suffixes == {"", " - PT-CE", " (PT - SP)", " (Bloco/PSDB - MG)", " /pt-ce", "!? "}

NameParts == [article : Articles, title : TitleForms, name : PersonNames, suffix : Suffixes]

NameOf(parts) == parts.article \o parts.title \o parts.name \o parts.suffix

InitNormalize ==
    /\ NormKey = <<>>
    /\ Score = <<>>
    /\ normalizer = NewNormalizer
    /\ NoSession
    /\ NoGraph
    /\ name_parts \in NameParts
    /\ normalized = NoCall
    /\ NoPipeline
    /\ NoCli

Normalize ==
    /\ normalized = NoCall
    /\ normalized' = _normalize(NameOf(name_parts))
    /\ UNCHANGED <<name_parts, normalizer, session_vars, graph_vars, tables, pipeline_vars, cli>>

NextNormalize == Normalize

SpecNormalize == InitNormalize /\ [][NextNormalize]_vars

-----------------------------------------------------------------------------
(* extract_speaker_and_mentions and create_graph                           *)

\* the loop over pessoa_tags[1:]: a mention is kept when its resolved name is
\* non-empty and differs from the speaker's resolved name
RECURSIVE ResolveMentions(_, _, _, _)
ResolveMentions(n, tags, speaker_canonical, mentions_canonical) ==
    IF Len(tags) = 0
    THEN {[speaker |-> speaker_canonical, mentions |-> mentions_canonical, n |-> n]}
    ELSE UNION {ResolveMentions(o.n, Tail(tags), speaker_canonical,
                                IF o.ret \notin {None, ""} /\ o.ret # speaker_canonical
                                THEN mentions_canonical \cup {o.ret}
                                ELSE mentions_canonical)
                : o \in get_canonical_name(n, Head(tags))}

\* The speaker (first tag) and the set of mentions (later tags) of a speech, with
\* the normalizer after the calls; (None, {}) when the speech has no tag.
SpeakerAndMentions(pessoa_tags, n) ==
    IF Len(pessoa_tags) = 0
    THEN {[speaker |-> None, mentions |-> {}, n |-> n]}
    ELSE UNION {ResolveMentions(o.n, Tail(pessoa_tags), o.ret, {})
                : o \in get_canonical_name(n, pessoa_tags[1])}

extract_speaker_and_mentions(speech_text, n) ==
    SpeakerAndMentions(PessoaTagNames(speech_text), n)

\* a variant of AddSpeech that leaves the weight of an edge it finds at what it is
AddSpeech_NoIncrement(g, speaker, mentions) ==
    LET edges == {<<speaker, mentioned>> : mentioned \in mentions}
    IN [nodes |-> g.nodes \cup {speaker} \cup mentions,
        weight |-> [e \in DOMAIN g.weight \cup edges |->
                       IF e \in DOMAIN g.weight THEN g.weight[e] ELSE 1]]

\* the speaker node, a node per mention, and one more unit of weight on the edge
\* from the speaker to every mention
AddSpeech(g, speaker, mentions) ==
    LET edges == {<<speaker, mentioned>> : mentioned \in mentions}
    IN [nodes |-> g.nodes \cup {speaker} \cup mentions,
        weight |-> [e \in DOMAIN g.weight \cup edges |->
                       (IF e \in DOMAIN g.weight THEN g.weight[e] ELSE 0)
                       + (IF e \in edges THEN 1 ELSE 0)]]

\* The body of the loop over the speeches of a document, on the locals of
\* create_graph st = [normalizer, graph, node_id_counter].  node_map has the
\* nodes of the graph as its keys; the id it gives a node is not modelled.
AfterSpeech(st, o) ==
    IF o.speaker \in {None, ""}
    THEN [st EXCEPT !.normalizer = o.n]
    ELSE LET g == AddSpeech(st.graph, o.speaker, o.mentions)
         IN [normalizer |-> o.n,
             graph |-> g,
             node_id_counter |-> st.node_id_counter + Cardinality(g.nodes \ st.graph.nodes)]

ProcessSpeechOutcomes(st, speech) ==
    {AfterSpeech(st, o) : o \in extract_speaker_and_mentions(speech, st.normalizer)}

RECURSIVE RunSpeeches(_, _)
RunSpeeches(sts, sps) ==
    IF Len(sps) = 0 THEN sts
    ELSE RunSpeeches(UNION {ProcessSpeechOutcomes(st, Head(sps)) : st \in sts}, Tail(sps))

RECURSIVE RunFiles(_, _)
RunFiles(sts, files) ==
    IF Len(files) = 0 THEN sts
    ELSE RunFiles(IF Head(files).readable
                  THEN RunSpeeches(sts, split_into_speeches(Head(files).text))
                  ELSE sts,
                  Tail(files))

\* create_graph on the documents `files`, as one function: the possible values of
\* its locals when it returns
create_graph(files) ==
    RunFiles({[normalizer |-> NewNormalizer, graph |-> NewGraph, node_id_counter |-> 0]}, files)

MaxFiles == 2

Files == [text : DocTexts, readable : BOOLEAN]
FileLists == UNION {[1..k -> Files] : k \in 0..MaxFiles}

InitGraph ==
    /\ Tables(TagNamesOf(DocTexts))
    /\ normalizer = NewNormalizer
    /\ NoSession
    /\ file_list \in FileLists
    /\ file_idx = 1
    /\ speeches = <<>>
    /\ graph = NewGraph
    /\ node_id_counter = 0
    /\ seg_log = <<>>
    /\ done = FALSE
    /\ NoNormalize
    /\ NoPipeline
    /\ NoCli

\* what seg_log records of a speech with the tags pessoa_tags, of which
\* extract_speaker_and_mentions returned o
LogOf(pessoa_tags, o) ==
    IF Len(pessoa_tags) = 0 THEN <<>>
    ELSE <<[speaker |-> pessoa_tags[1], mentioned |-> Range(Tail(pessoa_tags)),
            speaker_canonical |-> o.speaker, mentions_canonical |-> o.mentions]>>

\* for filename in file_list: the document is read and split into speeches
OpenFile ==
    /\ ~done
    /\ Len(speeches) = 0
    /\ file_idx <= Len(file_list)
    /\ file_list[file_idx].readable
    /\ speeches' = split_into_speeches(file_list[file_idx].text)
    /\ file_idx' = file_idx + 1
    /\ UNCHANGED <<normalizer, session_vars, file_list, graph, node_id_counter, seg_log, done,
                   normalize_vars, tables, pipeline_vars, cli>>

\* a variant of SkipUnreadableFile that leaves the loop over the documents (break
\* in the place of continue)
SkipUnreadableFile_EndsLoop ==
    /\ ~done
    /\ Len(speeches) = 0
    /\ file_idx <= Len(file_list)
    /\ ~file_list[file_idx].readable
    /\ file_idx' = Len(file_list) + 1
    /\ UNCHANGED <<normalizer, session_vars, file_list, speeches, graph, node_id_counter,
                   seg_log, done, normalize_vars, tables, pipeline_vars, cli>>

\* except Exception: continue
SkipUnreadableFile ==
    /\ ~done
    /\ Len(speeches) = 0
    /\ file_idx <= Len(file_list)
    /\ ~file_list[file_idx].readable
    /\ file_idx' = file_idx + 1
    /\ UNCHANGED <<normalizer, session_vars, file_list, speeches, graph, node_id_counter,
                   seg_log, done, normalize_vars, tables, pipeline_vars, cli>>

\* for speech in speeches
ProcessSpeech ==
    /\ Len(speeches) > 0
    /\ \E o \in extract_speaker_and_mentions(Head(speeches), normalizer) :
           LET st == AfterSpeech([normalizer |-> normalizer, graph |-> graph,
                                  node_id_counter |-> node_id_counter], o)
           IN /\ normalizer' = st.normalizer
              /\ graph' = st.graph
              /\ node_id_counter' = st.node_id_counter
              /\ seg_log' = seg_log \o LogOf(PessoaTagNames(Head(speeches)), o)
    /\ speeches' = Tail(speeches)
    /\ UNCHANGED <<session_vars, file_list, file_idx, done, normalize_vars, tables, pipeline_vars, cli>>

\* the end of create_graph: nx.write_gexf(graph, output_dir) inside try/except
\* (whether the file is written is recorded by GraphExit), then return graph
SaveGraph ==
    /\ ~done
    /\ Len(speeches) = 0
    /\ file_idx > Len(file_list)
    /\ done' = TRUE
    /\ UNCHANGED <<normalizer, session_vars, file_list, file_idx, speeches, graph,
                   node_id_counter, seg_log, normalize_vars, tables, pipeline_vars, cli>>

NextGraph == OpenFile \/ SkipUnreadableFile \/ ProcessSpeech \/ SaveGraph

SpecGraph == InitGraph /\ [][NextGraph]_vars

-----------------------------------------------------------------------------
(* One document through the whole pipeline: ner.py writes the grouped       *)
(* entities, create_annotations.py the annotated text, graph_joining.py    *)
(* builds the graph of the directory that holds it                         *)

ScenarioText ==
    "O SR. PRESIDENTE (João Silva. PT - SP) declarou aberta a sessão. "
    \o "O SR. PRESIDENTE (João Silva. PT - SP) agradeceu."
BlocText ==
    "O SR. PRESIDENTE (Davi Alcolumbre. Bloco/DEM - AP) dá a palavra a Soraya Thronicke. "
    \o "A SRA. SORAYA THRONICKE (PSL - MS) agradece a Davi Alcolumbre."
DebateText ==
    "O SR. JAQUES WAGNER (PT - BA) cita Soraya. "
    \o "O SR. PRESIDENTE (João Silva.PT - SP) responde a Jaques Wagner."
MinutesText == "Ata da sessão. <B>Soraya Thronicke</B> falou."
BlankText == " \n"

PipelineTexts == {ScenarioText, BlocText, DebateText, MinutesText, BlankText}

FullNames == {"João Silva", "Davi Alcolumbre", "Soraya Thronicke", "SORAYA THRONICKE",
              "JAQUES WAGNER", "Jaques Wagner", "Soraya"}
NameTokens == {"João", "Silva", "Davi", "Alcolumbre", "Soraya", "Thronicke", "SORAYA",
               "THRONICKE", "JAQUES", "WAGNER", "Jaques", "Wagner"}
Parties == {"PT", "DEM", "PSL"}

\* an entity of the given group and score at every place of text where one of the
\* literals stands, as the transformer pipeline reports it
Occurrences(text, literals, entity_group, score) ==
    {[entity_group |-> entity_group, score |-> score,
      start |-> at[2] - 1, end |-> at[2] - 1 + Len(at[1])] :
        at \in {at \in literals \X (1..Len(text)) :
                  /\ at[2] + Len(at[1]) - 1 <= Len(text)
                  /\ SubSeq(text, at[2], at[2] + Len(at[1]) - 1) = at[1]}}

\* the entities of an answer in the order of the text
InTextOrder(answer) ==
    [r \in 1..Cardinality(answer) |->
        CHOOSE ent \in answer :
            Cardinality({other \in answer :
                           \/ other.start < ent.start
                           \/ other.start = ent.start /\ other.end < ent.end}) = r - 1]

\* The answers of the transformer pipeline the model considers for a text: nothing;
\* the full names as persons; the single words of the names as persons and the
\* parties as organizations.
ModelAnswers(text) ==
    {<<>>,
     InTextOrder(Occurrences(text, FullNames, "PESSOA", 99900)),
     InTextOrder(Occurrences(text, NameTokens, "PESSOA", 98000)
                 \cup Occurrences(text, Parties, "ORGANIZACAO", 95000))}

PipelineInputs ==
    UNION {{[text |-> text, answer |-> answer] : answer \in ModelAnswers(_clean_text(text))} :
             text \in PipelineTexts}

\* self._normalize and fuzz.token_set_ratio are tabulated on the names of the tags
\* of a text when the text is written
TablesAfter(names) ==
    /\ NormKey' = [r \in names |-> _normalize(r)]
    /\ Score' = [p \in Keys' \X Keys' |-> token_set_ratio(p[1], p[2])]

InitPipeline ==
    /\ NormKey = <<>>
    /\ Score = <<>>
    /\ normalizer = NewNormalizer
    /\ NoSession
    /\ NoGraph
    /\ NoNormalize
    /\ pc = "extract"
    /\ \E input \in PipelineInputs :
           /\ doc_text = input.text
           /\ model_answer = input.answer
    /\ stage_entities = <<>>
    /\ rule_entities = <<>>
    /\ grouped_results = <<>>
    /\ annotated = ""
    /\ NoCli

\* process_text up to "if not raw_entities": a blank text or no entity of the model
\* ends the run with an empty result
ExtractModelEntities ==
    /\ pc = "extract"
    /\ stage_entities' = IF Len(Strip(Chars(doc_text))) = 0 THEN <<>>
                   ELSE _extract_entities_with_overlap(_clean_text(doc_text), doc_text,
                                                       model_answer)
    /\ pc' = IF Len(stage_entities') = 0 THEN "no_output" ELSE "rules"
    /\ UNCHANGED <<doc_text, model_answer, rule_entities, grouped_results, annotated,
                   normalizer, session_vars, graph_vars, normalize_vars, tables, cli>>

\* the rule entities are added and the persons kept
AddRuleEntities ==
    /\ pc = "rules"
    /\ rule_entities' = _rule_based_ner(_clean_text(doc_text))
    /\ stage_entities' = PessoaOnly(stage_entities \o rule_entities')
    /\ pc' = IF Len(stage_entities') = 0 THEN "no_output" ELSE "merge"
    /\ UNCHANGED <<doc_text, model_answer, grouped_results, annotated,
                   normalizer, session_vars, graph_vars, normalize_vars, tables, cli>>

MergeAdjacent ==
    /\ pc = "merge"
    /\ stage_entities' = _merge_adjacent_entities(stage_entities)
    /\ pc' = "dedup"
    /\ UNCHANGED <<doc_text, model_answer, rule_entities, grouped_results, annotated,
                   normalizer, session_vars, graph_vars, normalize_vars, tables, cli>>

RemoveDuplicates ==
    /\ pc = "dedup"
    /\ stage_entities' = _remove_duplicate_spans(stage_entities)
    /\ pc' = "group"
    /\ UNCHANGED <<doc_text, model_answer, rule_entities, grouped_results, annotated,
                   normalizer, session_vars, graph_vars, normalize_vars, tables, cli>>

\* process_text returns the groups; process_file saves them
GroupPersonEntities ==
    /\ pc = "group"
    /\ grouped_results' \in _group_similar_persons(stage_entities)
    /\ pc' = IF Len(grouped_results') = 0 THEN "no_output" ELSE "annotate"
    /\ UNCHANGED <<doc_text, model_answer, stage_entities, rule_entities, annotated,
                   normalizer, session_vars, graph_vars, normalize_vars, tables, cli>>

\* create_annotations.process_file: the annotated text is written where
\* create_graph reads its documents
Annotate ==
    /\ pc = "annotate"
    /\ annotated' = create_annotated_text(doc_text, grouped_results)
    /\ file_list' = <<[text |-> annotated', readable |-> TRUE]>>
    /\ TablesAfter(TagNamesOf({annotated'}))
    /\ pc' = "graph"
    /\ UNCHANGED <<doc_text, model_answer, stage_entities, rule_entities, grouped_results,
                   normalizer, session_vars, file_idx, speeches, graph, node_id_counter,
                   seg_log, done, normalize_vars, cli>>

\* an empty result is not saved: there is no annotated text for the document
NoOutput ==
    /\ pc = "no_output"
    /\ pc' = "graph"
    /\ UNCHANGED <<doc_text, model_answer, stage_entities, rule_entities, grouped_results,
                   annotated, normalizer, session_vars, graph_vars, normalize_vars,
                   tables, cli>>

\* create_graph on the directory of the annotated texts
BuildGraph ==
    /\ pc = "graph"
    /\ (OpenFile \/ ProcessSpeech \/ SaveGraph)

NextPipeline ==
    \/ ExtractModelEntities
    \/ AddRuleEntities
    \/ MergeAdjacent
    \/ RemoveDuplicates
    \/ GroupPersonEntities
    \/ Annotate
    \/ NoOutput
    \/ BuildGraph

SpecPipeline == InitPipeline /\ [][NextPipeline]_vars

-----------------------------------------------------------------------------
(* The post-processing of process_text on lists of entities: the entities  *)
(* of the model and of the rules are merged and freed of duplicate spans   *)

SpanText == "A SRA. ANA LUZ (PT - SP) cita Ana da Luz"

\* the same text with a comma for the dot of the treatment: no rule matches it
PlainSpanText == "A SRA, ANA LUZ (PT - SP) cita Ana da Luz"

SpanTexts == {SpanText, PlainSpanText}

\* the places of the text the transformer pipeline may report: the words of the
\* names, two of them together, and the whole introduction of the speaker
SpanExtents == {<<7, 10>>, <<11, 14>>, <<7, 14>>, <<0, 24>>,
                <<30, 33>>, <<34, 36>>, <<37, 40>>, <<30, 36>>}
SpanGroups == {"PESSOA", "ORGANIZACAO"}
SpanScores == {90000, 99000}

ModelSpans ==
    {[entity_group |-> g, score |-> sc, start |-> x[1], end |-> x[2]] :
        g \in SpanGroups, sc \in SpanScores, x \in SpanExtents}

MaxModelSpans == 2

SpanAnswers == UNION {[1..n -> ModelSpans] : n \in 0..MaxModelSpans}

\* process_text on one of the two texts when it reaches _merge_adjacent_entities:
\* the transformer pipeline found entities (raw_entities is not empty), the
\* entities of the rules were added, the persons were kept and there is one at least
InitSpans ==
    /\ NormKey = <<>>
    /\ Score = <<>>
    /\ normalizer = NewNormalizer
    /\ NoSession
    /\ NoGraph
    /\ NoNormalize
    /\ pc = "merge"
    /\ \E text \in SpanTexts :
          LET clean_text_content == _clean_text(text)
          IN /\ doc_text = text
             /\ rule_entities = _rule_based_ner(clean_text_content)
             /\ \E answer \in SpanAnswers :
                   LET raw_entities ==
                           _extract_entities_with_overlap(clean_text_content, text, answer)
                   IN /\ raw_entities # <<>>
                      /\ model_answer = answer
                      /\ stage_entities = PessoaOnly(raw_entities \o rule_entities)
                      /\ stage_entities # <<>>
    /\ grouped_results = <<>>
    /\ annotated = ""
    /\ NoCli

NextSpans ==
    \/ MergeAdjacent
    \/ RemoveDuplicates

SpecSpans == InitSpans /\ [][NextSpans]_vars

-----------------------------------------------------------------------------
(* _group_similar_persons on lists of person entities                      *)

GroupsText ==
    "ANA LIMA, Abel da Luz, Abel Luz, Ana Lima, Bia Lobo, Lima Ana e Ana Lima"

\* a score of four decimals and three of five: one rounds down, one up, and 0.98765
\* lies half-way between 0.9876 and 0.9877 in decimals (round gives 0.9877, the
\* double being above the half)
GroupsScores == {99000, 98764, 98765, 90296}

GroupsNames == {"ANA LIMA", "Abel da Luz", "Abel Luz", "Ana Lima", "Bia Lobo", "Lima Ana"}

\* the entities of the names of the text, as _remove_duplicate_spans hands them on:
\* with their words, in the order of their starts
GroupsEntities(answer) ==
    StableSort(_extract_entities_with_overlap(GroupsText, GroupsText, InTextOrder(answer)),
               ByStart)

\* process_text when it reaches _group_similar_persons: the transformer pipeline
\* found entities and a person is left (process_text returns before the grouping
\* when raw_entities or pessoa_entities is empty), so the list is not empty
InitGroups ==
    /\ NormKey = <<>>
    /\ Score = <<>>
    /\ normalizer = NewNormalizer
    /\ NoSession
    /\ NoGraph
    /\ NoNormalize
    /\ NoCli
    /\ pc = "group"
    /\ doc_text = GroupsText
    /\ \E score \in GroupsScores :
          \E answer \in SUBSET Occurrences(GroupsText, GroupsNames, "PESSOA", score) :
              /\ answer # {}
              /\ model_answer = InTextOrder(answer)
              /\ stage_entities = GroupsEntities(answer)
    /\ rule_entities = <<>>
    /\ grouped_results = <<>>
    /\ annotated = ""

NextGroups == GroupPersonEntities

SpecGroups == InitGroups /\ [][NextGroups]_vars

-----------------------------------------------------------------------------
(* split_into_speeches on documents made of a few parts                    *)

SegmentParts == {"Fala ", "a Sra. ", "O SR. PRESIDENTE ", "A Sra. Maria responde.",
                 "o sr. dr. Pedro. ", " \n", "OSR. x"}

MaxParts == 3

RECURSIVE Concat(_)
Concat(parts) == IF Len(parts) = 0 THEN "" ELSE Head(parts) \o Concat(Tail(parts))

SegmentTexts == {Concat(parts) : parts \in UNION {[1..n -> SegmentParts] : n \in 0..MaxParts}}

InitSegments ==
    /\ NormKey = <<>>
    /\ Score = <<>>
    /\ normalizer = NewNormalizer
    /\ NoSession
    /\ NoGraph
    /\ NoNormalize
    /\ NoCli
    /\ pc = "split"
    /\ doc_text \in SegmentTexts
    /\ model_answer = <<>>
    /\ stage_entities = <<>>
    /\ rule_entities = <<>>
    /\ grouped_results = <<>>
    /\ annotated = ""

\* speeches = split_into_speeches(text)
SplitDocument ==
    /\ pc = "split"
    /\ speeches' = split_into_speeches(doc_text)
    /\ pc' = "speeches"
    /\ UNCHANGED <<normalizer, session_vars, file_list, file_idx, graph, node_id_counter,
                   seg_log, done, normalize_vars, tables, doc_text, model_answer,
                   stage_entities, rule_entities, grouped_results, annotated, cli>>

NextSegments == SplitDocument

SpecSegments == InitSegments /\ [][NextSegments]_vars

-----------------------------------------------------------------------------
(* The two commands: main of graph_joining.py and main of ner/ner.py, from  *)
(* the arguments to the end of the process                                 *)

\* a process that has not ended, of a command on an input directory and an output
\* directory
Started(command, argv_given, input_dir_exists, output_dir_exists, txt_files) ==
    [command |-> command, argv_given |-> argv_given,
     input_dir_exists |-> input_dir_exists, output_dir_exists |-> output_dir_exists,
     txt_files |-> txt_files,
     exited |-> FALSE, exit_status |-> 0, output_written |-> FALSE]

\* the process ends: sys.exit(status), or the return of main (status 0)
Exited(status, output_written) ==
    [cli EXCEPT !.exited = TRUE, !.exit_status = status,
                !.output_written = output_written]

\* python3 graph_joining.py <input_dir> <output_dir>; without the two arguments
\* main takes its built-in directories
InitGraphCommand ==
    /\ Tables(TagNamesOf(DocTexts))
    /\ normalizer = NewNormalizer
    /\ NoSession
    /\ file_idx = 1
    /\ speeches = <<>>
    /\ graph = NewGraph
    /\ node_id_counter = 0
    /\ seg_log = <<>>
    /\ done = FALSE
    /\ NoNormalize
    /\ NoPipeline
    /\ \E argv_given, input_dir_exists, output_dir_exists \in BOOLEAN :
          \E files \in FileLists :
             /\ input_dir_exists \/ files = <<>>
             /\ file_list = files
             /\ cli = Started("graph_joining", argv_given, input_dir_exists,
                              output_dir_exists, Len(files))

\* python ner.py <input_dir> <output_dir>, on a directory with one text file or none
InitNerCommand ==
    /\ NormKey = <<>>
    /\ Score = <<>>
    /\ normalizer = NewNormalizer
    /\ NoSession
    /\ NoGraph
    /\ NoNormalize
    /\ stage_entities = <<>>
    /\ rule_entities = <<>>
    /\ grouped_results = <<>>
    /\ annotated = ""
    /\ \/ /\ pc = "extract"
          /\ \E input \in PipelineInputs :
                /\ doc_text = input.text
                /\ model_answer = input.answer
          /\ \E argv_given, output_dir_exists \in BOOLEAN :
                cli = Started("ner", argv_given, TRUE, output_dir_exists, 1)
       \/ /\ pc = "none"
          /\ doc_text = ""
          /\ model_answer = <<>>
          /\ \E argv_given, input_dir_exists, output_dir_exists \in BOOLEAN :
                cli = Started("ner", argv_given, input_dir_exists, output_dir_exists, 0)

InitCli == InitGraphCommand \/ InitNerCommand

unchanged_by_exit ==
    <<normalizer, session_vars, graph_vars, normalize_vars, tables, pipeline_vars>>

\* graph_joining.py: the input directory is not there.  With the arguments given,
\* create_graph prints the error and returns None, and main returns; without them,
\* main prints the error and returns.  The process ends with status 0.
GraphMissingInputDir ==
    /\ cli.command = "graph_joining"
    /\ ~cli.exited
    /\ ~cli.input_dir_exists
    /\ cli' = Exited(0, FALSE)
    /\ UNCHANGED unchanged_by_exit

\* create_graph on the documents of the directory
GraphRun ==
    /\ cli.command = "graph_joining"
    /\ ~cli.exited
    /\ cli.input_dir_exists
    /\ (OpenFile \/ SkipUnreadableFile \/ ProcessSpeech \/ SaveGraph)

\* create_graph has returned and main returns.  nx.write_gexf has written the file
\* when the output directory exists; when it does not, the exception of the write
\* is caught, the error is printed and no file is written.  The status is 0 in
\* both cases.
GraphExit ==
    /\ cli.command = "graph_joining"
    /\ ~cli.exited
    /\ done
    /\ cli' = Exited(0, cli.output_dir_exists)
    /\ UNCHANGED unchanged_by_exit

\* ner.py: len(sys.argv) < 3
NerUsage ==
    /\ cli.command = "ner"
    /\ ~cli.exited
    /\ ~cli.argv_given
    /\ cli' = Exited(1, FALSE)
    /\ UNCHANGED unchanged_by_exit

\* ner.py: not os.path.isdir(base_input_dir)
NerMissingInputDir ==
    /\ cli.command = "ner"
    /\ ~cli.exited
    /\ cli.argv_given
    /\ ~cli.input_dir_exists
    /\ cli' = Exited(1, FALSE)
    /\ UNCHANGED unchanged_by_exit

\* ner.py: not txt_files
NerNoTextFiles ==
    /\ cli.command = "ner"
    /\ ~cli.exited
    /\ cli.argv_given
    /\ cli.input_dir_exists
    /\ cli.txt_files = 0
    /\ cli' = Exited(1, FALSE)
    /\ UNCHANGED unchanged_by_exit

\* process_file on the text file: process_text
NerRun ==
    /\ cli.command = "ner"
    /\ ~cli.exited
    /\ cli.argv_given
    /\ cli.input_dir_exists
    /\ cli.txt_files > 0
    /\ \/ ExtractModelEntities
       \/ AddRuleEntities
       \/ MergeAdjacent
       \/ RemoveDuplicates
       \/ GroupPersonEntities

\* process_file saves the groups when there are any (main has made the output
\* directory with os.makedirs); main returns after the last file
NerExit ==
    /\ cli.command = "ner"
    /\ ~cli.exited
    /\ cli.argv_given
    /\ pc \in {"annotate", "no_output"}
    /\ cli' = Exited(0, pc = "annotate")
    /\ UNCHANGED unchanged_by_exit

NextCli ==
    \/ GraphMissingInputDir
    \/ GraphRun
    \/ GraphExit
    \/ NerUsage
    \/ NerMissingInputDir
    \/ NerNoTextFiles
    \/ NerRun
    \/ NerExit

SpecCli == InitCli /\ [][NextCli]_vars

-----------------------------------------------------------------------------
(* Claims about the resolver, over the sessions of Spec                    *)

Ids(n) == DOMAIN n.entries
KeysOf(n, id) == {k \in DOMAIN n.norm_to_canonical : n.norm_to_canonical[k] = id}
IsNewKey(n, key) ==
    key \notin {"", None} /\ key \notin n.conflicts /\ key \notin DOMAIN n.norm_to_canonical

\* the record id holds at least two merged raw names, and the new key of raw name c
\* scores at least 85 against a key of id and against no key of another record
MatchesOnlyMerged(n, id, c) ==
    /\ IsNewKey(n, NormKey[c])
    /\ Cardinality(n.entries[id].original_names) >= 2
    /\ \E k \in KeysOf(n, id) : Score[<<NormKey[c], k>>] >= MatchThreshold
    /\ \A k \in DOMAIN n.norm_to_canonical \ KeysOf(n, id) :
           Score[<<NormKey[c], k>>] < MatchThreshold

\* C4 (merge monotonicity): once raw names a and b are merged into one record, a
\* call on a later raw name c whose new key scores >= 85 against a key of that
\* record, and against no key of another record, returns the canonical name of that
\* record and does not put the key of c into the conflict set.
C4_MergeMonotonicity ==
    [][\A c \in SessionNames, id \in Ids(normalizer) :
          (last_raw' = c /\ MatchesOnlyMerged(normalizer, id, c))
          => /\ last_ret' = normalizer'.entries[id].canonical_name
             /\ NormKey[c] \notin normalizer'.conflicts]_vars

\* C5 (conflicts require distinct identities): a key enters the conflict set only in
\* a call in which it scored >= 85 against keys of at least two distinct records,
\* the best two scores being less than 10 apart.
C5_ConflictsNeedDistinctIdentities ==
    [][\A key \in normalizer'.conflicts \ normalizer.conflicts :
          LET potential_matches == PotentialMatches(normalizer, key)
          IN /\ Cardinality({normalizer.norm_to_canonical[m[1]] : m \in potential_matches}) >= 2
             /\ TopMatch(potential_matches)[2] - SecondMatch(potential_matches)[2]
                    < ClearMargin]_vars

\* C6 (conflict stability): a call on a raw name whose key is already in the
\* conflict set returns that raw name verbatim, and the key stays in the set.
C6_ConflictStability ==
    [][\A r \in SessionNames :
          (last_raw' = r /\ NormKey[r] \in normalizer.conflicts)
          => (last_ret' = r /\ NormKey[r] \in normalizer'.conflicts)]_vars

\* a call on a conflicted key that followed a call on another name
C6_Witness == last_branch = "known_conflict" /\ ~repeated /\ last_ret = last_raw

\* C7 (idempotence): a call with the same raw name as the call before it returns
\* the same string.
C7_RepeatedCallSameResult == [][last_raw' = last_raw => last_ret' = last_ret]_vars

\* the same name twice in a row, both calls returning another, longer variant
C7_Witness == repeated /\ last_branch = "known_key" /\ last_ret # last_raw

\* C10 (total, never invents): in every state every call has an outcome, and the
\* latest call on a non-empty raw name returned a non-empty string that was passed
\* to this or an earlier call of the session.
C10_TotalAndNeverInvents ==
    /\ \A r \in SessionNames : get_canonical_name(normalizer, r) # {}
    /\ last_raw \notin {NoCall, ""} => (last_ret \notin {"", None} /\ last_ret \in passed)

\* a call that returned a raw name of an earlier call
C10_Witness ==
    last_branch \in {"one_match", "clear_top_match"} /\ last_ret # last_raw /\ last_ret \in passed


\* the original names of the record of an identity
NamesOf(n, id) == n.entries[id].original_names

\* the speeches folded so far whose speaker tag is a name of identity i and that
\* have a later tag that is a name of identity j
SegmentsOfPair(i, j) ==
    {k \in DOMAIN seg_log : /\ seg_log[k].speaker \in NamesOf(normalizer, i)
                            /\ seg_log[k].mentioned \cap NamesOf(normalizer, j) # {}}

EdgesOfPair(i, j) ==
    {e \in DOMAIN graph.weight : e[1] \in NamesOf(normalizer, i) /\ e[2] \in NamesOf(normalizer, j)}

AllReadable(texts) ==
    file_list = [k \in DOMAIN texts |-> [text |-> texts[k], readable |-> TRUE]]

\* C1 (graph weight accumulation across name variants): the graph that create_graph
\* returns holds at most one node per identity, and for every ordered pair of
\* distinct identities that occurs as (speaker, mentioned) in some speech exactly one
\* edge, whose weight is the number of those speeches; for document A (Jaques Wagner
\* mentions Soraya) followed by document B (JAQUES WAGNER mentions SORAYA THRONICKE)
\* the graph has exactly two nodes and one edge, of weight 2.
C1_OneEdgePerIdentityPair ==
    done =>
        /\ \A i \in Ids(normalizer) : Cardinality(graph.nodes \cap NamesOf(normalizer, i)) <= 1
        /\ \A i, j \in Ids(normalizer) :
               (i # j /\ SegmentsOfPair(i, j) # {}) =>
                   /\ Cardinality(EdgesOfPair(i, j)) = 1
                   /\ \A e \in EdgesOfPair(i, j) :
                          graph.weight[e] = Cardinality(SegmentsOfPair(i, j))
        /\ AllReadable(<<DocA, DocB>>) =>
               /\ Cardinality(graph.nodes) = 2
               /\ Cardinality(DOMAIN graph.weight) = 1
               /\ \A e \in DOMAIN graph.weight : graph.weight[e] = 2

\* C2 (no self-loops at identity level): the graph never contains an edge whose two
\* endpoints are names of the same identity record.
C2_NoEdgeInsideAnIdentity ==
    \A e \in DOMAIN graph.weight :
        ~ \E i \in Ids(normalizer) : {e[1], e[2]} \subseteq NamesOf(normalizer, i)

\* the orders in which the documents of file_list can be processed
Orders(files) ==
    {[k \in DOMAIN files |-> files[p[k]]] : p \in Permutations(DOMAIN files)}

\* C3 (document-order independence): when create_graph has returned with an empty
\* conflict set, processing the same documents in any other order that also leaves
\* the conflict set empty gives the same nodes, edges and weights.
C3_DocumentOrderIndependent ==
    (done /\ normalizer.conflicts = {}) =>
        \A other \in Orders(file_list) :
            \A st \in create_graph(other) :
                st.normalizer.conflicts = {} => st.graph = graph


\* the words of a key
KeyTokens(key) == Split(Chars(key))

\* the key starts with a title of the closed list, possibly after an article
HasLeadingHonorific(key) ==
    LET toks == [k \in DOMAIN KeyTokens(key) |-> Str(KeyTokens(key)[k])]
    IN /\ Len(toks) > 0
       /\ \/ toks[1] \in Range(titles)
          \/ Len(toks) > 1 /\ toks[1] \in {"o", "a"} /\ toks[2] \in Range(titles)

NoPunctuationNoAccents(key) ==
    \A c \in Range(Chars(key)) : c \notin Punctuation \cup AccUpper \cup AccLower

ClaimExample == [article |-> "O ", title |-> "SR. ", name |-> "JOÃO DA SILVA", suffix |-> " - PT-CE"]

Normalized == normalized \notin {NoCall, "", None}

\* C8 (normalization result), as claimed: the key _normalize returns has no
\* punctuation, no accents and no leading honorific, and
\* _normalize("O SR. JOÃO DA SILVA - PT-CE") is "joao da silva".
C8_NoLeadingHonorific ==
    Normalized =>
        /\ NoPunctuationNoAccents(normalized)
        /\ ~HasLeadingHonorific(normalized)
        /\ name_parts = ClaimExample => normalized = "joao da silva"

\* the title forms that _normalize removes when they start the name: a title of
\* the list, an optional dot, whitespace
RemovableTitles == {"SR. ", "Sra. ", "dr ", "DEPUTADA ", "Senador.  ", "PRESIDENTE "}

\* C8 (normalization result), amended: the key has no character of the
\* punctuation list, no accented and no uppercase letter, and single spaces between
\* its words; a title is removed only where it is the first word of the name (the
\* key is then the key of the name without the title), and stays after an article:
\* _normalize("O SR. JOÃO DA SILVA - PT-CE") is "o sr joao da silva" and
\* _normalize("SR. JOÃO DA SILVA - PT-CE") is "joao da silva".
C8_HonorificRemovedOnlyWhenFirst ==
    Normalized =>
        /\ NoPunctuationNoAccents(normalized)
        /\ \A c \in Range(Chars(normalized)) : c \notin Upper
        /\ Chars(normalized) = Join(KeyTokens(normalized))
        /\ name_parts = ClaimExample => normalized = "o sr joao da silva"
        /\ name_parts = [ClaimExample EXCEPT !.article = ""] => normalized = "joao da silva"
        /\ (name_parts.article = "" /\ name_parts.title \in RemovableTitles)
               => normalized = _normalize(name_parts.name \o name_parts.suffix)
        /\ (name_parts.article # "" /\ name_parts.title \in RemovableTitles)
               => HasLeadingHonorific(normalized)

\* the claim's example has been normalized, and the article and the title are in
\* the key
C8_Witness ==
    name_parts = ClaimExample /\ normalized = "o sr joao da silva"

-----------------------------------------------------------------------------
(* Claims about the whole pipeline, over the runs of SpecPipeline          *)

\* C9 (end-to-end scenario), as claimed: when the pipeline has run on the scenario
\* text, the rule extractor has yielded two person spans, the annotated text splits
\* into two segments, both segments have a name of one identity as their speaker and
\* mention nobody else, and the graph has exactly one node and no edge.
C9_ScenarioEndToEnd ==
    (doc_text = ScenarioText /\ done) =>
        /\ Len(rule_entities) = 2
        /\ \A k \in DOMAIN rule_entities : rule_entities[k].entity_group = "PESSOA"
        /\ Len(split_into_speeches(annotated)) = 2
        /\ Len(seg_log) = 2
        /\ \E i \in Ids(normalizer) :
               \A k \in DOMAIN seg_log :
                   /\ seg_log[k].speaker \in NamesOf(normalizer, i)
                   /\ seg_log[k].mentioned \subseteq NamesOf(normalizer, i)
        /\ Cardinality(graph.nodes) = 1
        /\ DOMAIN graph.weight = {}

-----------------------------------------------------------------------------
(* Claims C11 to C20                                                        *)

\* C11 (empty input returned unchanged), as claimed: a call of get_canonical_name
\* on the empty raw name returns the empty name it was given and leaves the
\* resolver as it was.
C11_EmptyReturnedUnchanged ==
    [][last_raw' = "" => (last_ret' = "" /\ normalizer' = normalizer)]_vars

\* the entities process_text hands to _merge_adjacent_entities
all_entities ==
    _extract_entities_with_overlap(doc_text, doc_text, model_answer) \o rule_entities

\* the persons among them: the list process_text hands to _merge_adjacent_entities
pessoa_entities == PessoaOnly(all_entities)

\* second starts one character after the end of first, and has its label
OneApart(first, second) ==
    first.entity_group = second.entity_group /\ second.start - first.end = 1

\* C12 (span merge of adjacent spans): _merge_adjacent_entities, given two spans
\* of the same label of which the second starts exactly one character after the
\* end of the first, in either order and whatever the case of their letters,
\* returns one span: its text is the text of the first, a space and the text of
\* the second, it starts where the first starts and ends where the second ends,
\* and its confidence is the lower of the two.
C12_AdjacentSpansMerge ==
    [][(pc = "merge" /\ Len(stage_entities) = 2) =>
         \A i, j \in {1, 2} :
            OneApart(stage_entities[i], stage_entities[j]) =>
               /\ Len(stage_entities') = 1
               /\ stage_entities'[1].entity_group = stage_entities[i].entity_group
               /\ stage_entities'[1].word =
                      stage_entities[i].word \o " " \o stage_entities[j].word
               /\ stage_entities'[1].start = stage_entities[i].start
               /\ stage_entities'[1].end = stage_entities[j].end
               /\ stage_entities'[1].score =
                      Min({stage_entities[i].score, stage_entities[j].score})]_vars

\* two spans one character apart of which none is in capitals, given the later
\* one first, have been merged
C12_Witness ==
    /\ pc = "dedup"
    /\ Len(pessoa_entities) = 2
    /\ OneApart(pessoa_entities[2], pessoa_entities[1])
    /\ ~IsUpper(pessoa_entities[1].word) /\ ~IsUpper(pessoa_entities[2].word)
    /\ pessoa_entities[1].score < pessoa_entities[2].score
    /\ Len(stage_entities) = 1
    /\ stage_entities[1].word = pessoa_entities[2].word \o " " \o pessoa_entities[1].word

SameSpan(a, b) == a.start = b.start /\ a.end = b.end

\* C13 (highest confidence wins), as claimed: when the list of person spans of the
\* rules and the model holds two spans of the same start and end, merging and
\* then removing the duplicates leaves exactly one span of that start and end, with
\* the confidence and the text of the more confident of the two.
C13_HighestConfidenceWins ==
    (pc = "group" /\ PessoaOnly(all_entities) = all_entities) =>
        \A i, j \in DOMAIN all_entities :
            (/\ i # j
             /\ SameSpan(all_entities[i], all_entities[j])
             /\ all_entities[i].score > all_entities[j].score
             /\ \A k \in DOMAIN all_entities :
                    SameSpan(all_entities[k], all_entities[i]) => k \in {i, j})
            => /\ Cardinality({k \in DOMAIN stage_entities :
                                 SameSpan(stage_entities[k], all_entities[i])}) = 1
               /\ \A k \in DOMAIN stage_entities :
                     SameSpan(stage_entities[k], all_entities[i]) =>
                        /\ stage_entities[k].score = all_entities[i].score
                        /\ stage_entities[k].word = all_entities[i].word

\* the documents of the corpus that can be read
ReadableFiles == SelectSeq(file_list, LAMBDA file : file.readable)

\* C14 (unreadable documents are skipped): the step of create_graph on a document
\* that cannot be read leaves the graph and the resolver as they were, and the
\* graph and the resolver create_graph ends with are among those it gives on the
\* corpus without the unreadable documents.
C14_UnreadableSkipped ==
    /\ [][(~done /\ Len(speeches) = 0 /\ file_idx <= Len(file_list)
               /\ ~file_list[file_idx].readable)
            => (graph' = graph /\ normalizer' = normalizer
                  /\ node_id_counter' = node_id_counter)]_vars
    /\ [](done => [normalizer |-> normalizer, graph |-> graph,
                   node_id_counter |-> node_id_counter] \in create_graph(ReadableFiles))

\* create_graph has ended on a corpus whose first document cannot be read, with
\* edges from the document after it
C14_Witness ==
    /\ done
    /\ Len(file_list) = 2
    /\ ~file_list[1].readable
    /\ file_list[2].readable
    /\ DOMAIN graph.weight # {}

\* the processed segments whose speaker name is u and whose mention list holds v
SegmentsNaming(u, v) ==
    {k \in DOMAIN seg_log : /\ seg_log[k].speaker_canonical = u
                            /\ v \in seg_log[k].mentions_canonical}

\* the names extract_speaker_and_mentions has returned so far
ReturnedNames ==
    UNION {{seg_log[k].speaker_canonical} \cup seg_log[k].mentions_canonical :
             k \in DOMAIN seg_log}

\* C15 (edge weight equals segment count): at every point of create_graph, an edge
\* from u to v is in the graph exactly when some processed segment had the speaker
\* name u and v in its mention list, and its weight is the number of those
\* segments.
C15_WeightIsSegmentCount ==
    /\ \A e \in DOMAIN graph.weight :
          /\ graph.weight[e] = Cardinality(SegmentsNaming(e[1], e[2]))
          /\ graph.weight[e] >= 1
    /\ \A u, v \in ReturnedNames :
          SegmentsNaming(u, v) # {} => <<u, v>> \in DOMAIN graph.weight

\* an edge has the weight 2 after two segments, and a segment that names the
\* mentioned person in two tags has added 1 to its edge
C15_Witness ==
    /\ done
    /\ \E e \in DOMAIN graph.weight : graph.weight[e] = 2
    /\ \E k \in DOMAIN seg_log :
          /\ seg_log[k].speaker = "Wagner"
          /\ seg_log[k].mentioned = {"Soraya"}
          /\ \E v \in seg_log[k].mentions_canonical :
                graph.weight[<<seg_log[k].speaker_canonical, v>>] = 1

\* C16 (exit status of the commands), as claimed: a command given an input
\* directory that does not exist ends with a status other than zero and without an
\* output file, and a command whose input directory exists and whose processing
\* has completed ends with the status zero.
C16_ExitStatus ==
    (cli.exited /\ cli.argv_given) =>
        /\ ~cli.input_dir_exists => (cli.exit_status # 0 /\ ~cli.output_written)
        /\ (cli.input_dir_exists /\ (done \/ pc \in {"annotate", "no_output"}))
              => cli.exit_status = 0

\* the names of equal length are in the order of their code points
ByCodePoint(a, b) == LexLess(Chars(a), Chars(b))

\* the names of equal length are in the order of the alphabet, whatever their case
\* (the order of create_manual.py: item[0].lower())
ByAlphabet(a, b) == LexLess(LowerCs(Chars(a)), LowerCs(Chars(b)))

\* every list of positions of the mapping is in the order of the starts
PositionsByStart ==
    \A k \in DOMAIN grouped_results :
        \A i, j \in DOMAIN grouped_results[k].positions :
            i < j => grouped_results[k].positions[i][1] <= grouped_results[k].positions[j][1]

\* C17 (order of the grouped-entity mapping), as claimed: the keys of the mapping
\* _group_similar_persons returns are in the order of their length, longest first,
\* and alphabetically among the keys of one length, and the positions of every key
\* are in the order of their starts.
C17_KeysByLengthThenAlphabet ==
    pc # "group" =>
        /\ \A i, j \in DOMAIN grouped_results :
              i < j => LET a == grouped_results[i].name
                           b == grouped_results[j].name
                       IN \/ Len(a) > Len(b)
                          \/ Len(a) = Len(b) /\ ByAlphabet(a, b)
        /\ PositionsByStart

\* C17, amended: the keys of one length are in the order of their code points, in
\* which every capital letter comes before every small letter.
C17_KeysByLengthThenCodePoint ==
    pc # "group" =>
        /\ \A i, j \in DOMAIN grouped_results :
              i < j => LET a == grouped_results[i].name
                           b == grouped_results[j].name
                       IN \/ Len(a) > Len(b)
                          \/ Len(a) = Len(b) /\ ByCodePoint(a, b)
        /\ PositionsByStart

\* a group has taken the name of a later word of the same length while another
\* group stood after it, and a key has two positions
C17_Witness ==
    /\ pc # "group"
    /\ \E k \in DOMAIN stage_entities : stage_entities[k].word = "Ana Lima"
    /\ Len(grouped_results) >= 3
    /\ grouped_results[Len(grouped_results) - 1].name = "Bia Lobo"
    /\ grouped_results[Len(grouped_results)].name = "Lima Ana"
    /\ Len(grouped_results[Len(grouped_results)].positions) >= 2

\* some position of the mapping process_text returned covers the span of entity
Covered(entity) ==
    \E k \in DOMAIN grouped_results :
        \E i \in DOMAIN grouped_results[k].positions :
            /\ grouped_results[k].positions[i][1] <= entity.start
            /\ entity.end <= grouped_results[k].positions[i][2]

\* C18 (rule spans always reach the output), as claimed: when process_text has
\* returned, every match the rules accept in the document is covered by a span of
\* its result, whatever the transformer pipeline answered, nothing included.
C18_RuleSpansReachOutput ==
    pc \in {"annotate", "no_output"} =>
        \A k \in DOMAIN _rule_based_ner(_clean_text(doc_text)) :
            Covered(_rule_based_ner(_clean_text(doc_text))[k])

\* the character ranges of the entities a and b overlap
RangesOverlap(a, b) == Max({a.start, b.start}) < Min({a.end, b.end})

\* the entity of rule_entities with the span of the match m, of the pattern source
KeptAs(entities, m, source) ==
    \E k \in DOMAIN entities :
        /\ entities[k].start = m[1] - 1
        /\ entities[k].end = m[2] - 1
        /\ entities[k].source = source

\* C19 (rule matches never overlap): in the list _rule_based_ner returns no two
\* spans overlap, every span has the label PESSOA and the confidence 1.0, every
\* match of the first pattern is kept, and a match of the second pattern that
\* overlaps a match of the first is left out.
C19_RuleSpansDisjoint ==
    [][pc = "rules" =>
         LET text == Chars(_clean_text(doc_text))
             presidente == FindIter(parliamentary_presidente_regex, text, 1)
             other == FindIter(parliamentary_other_regex, text, 1)
         IN /\ \A i, j \in DOMAIN rule_entities' :
                  i # j => ~RangesOverlap(rule_entities'[i], rule_entities'[j])
            /\ \A k \in DOMAIN rule_entities' :
                  /\ rule_entities'[k].entity_group = "PESSOA"
                  /\ rule_entities'[k].score = RuleScore
            /\ \A k \in DOMAIN presidente :
                  KeptAs(rule_entities', presidente[k], "rule_parliamentary_presidente")
            /\ \A k \in DOMAIN other :
                  KeptAs(rule_entities', other[k], "rule_parliamentary_other")
                     <=> \A j \in DOMAIN presidente :
                            Max({other[k][1], presidente[j][1]})
                               >= Min({other[k][2], presidente[j][2]})]_vars

\* the rules have run on a text in which a match of the second pattern has the
\* span of a match of the first, and on which the second pattern has another match
C19_Witness ==
    /\ pc = "merge"
    /\ doc_text = BlocText
    /\ Len(rule_entities) = 2
    /\ rule_entities[1].source = "rule_parliamentary_presidente"
    /\ rule_entities[2].source = "rule_parliamentary_other"
    /\ Search(parliamentary_other_regex, Chars(BlocText), 1)[1] = rule_entities[1].start + 1

\* the characters of cs that are not whitespace
NonSpace(cs) == SelectSeq(cs, LAMBDA c : c \notin Space)

RECURSIVE NonSpaceOfAll(_)
NonSpaceOfAll(segments) ==
    IF Len(segments) = 0 THEN <<>>
    ELSE NonSpace(Chars(Head(segments))) \o NonSpaceOfAll(Tail(segments))

\* the segments are the document in its order, whitespace apart
InDocumentOrder == NonSpaceOfAll(speeches) = NonSpace(Chars(doc_text))

NoBlankSegment ==
    \A k \in DOMAIN speeches :
        Len(speeches[k]) > 0 /\ Strip(Chars(speeches[k])) = Chars(speeches[k])

\* a boundary phrase starts at the p-th character of the segment
BoundaryAt(segment, p) == M(Chars(segment), p, <<SpeakerIntroRe>>) # Fail

NoBoundaryInside ==
    \A k \in DOMAIN speeches :
        \A p \in 2..Len(speeches[k]) : ~BoundaryAt(speeches[k], p)

\* the segment is the article and the treatment of a boundary phrase and no more:
\* (?:O|A)\s+SR(?:A)?\. to the end, re.IGNORECASE
ArticleAndTreatmentOnly(segment) ==
    M(Chars(segment), 1,
      <<Cat(<<Alt(<<LitI("O"), LitI("A")>>), Plus(WS), LitI("SR"), Opt(LitI("A")),
              Set({"."}), EndA>>)>>) # Fail

\* C20 (segmentation), as claimed: split_into_speeches returns the segments in the
\* order of the document, none of them empty or blank; every segment but the first
\* begins with a boundary phrase, and no segment has a boundary phrase that starts
\* after its first character.
C20_SegmentsBeginWithBoundary ==
    pc = "speeches" =>
        /\ InDocumentOrder
        /\ NoBlankSegment
        /\ \A k \in 2..Len(speeches) : BoundaryAt(speeches[k], 1)
        /\ NoBoundaryInside

\* C20, amended: a segment after the first begins with a boundary phrase, or is
\* the article and treatment alone ("a Sra.") of a phrase whose role token begins
\* the next segment because a boundary phrase starts at that token.
C20_SegmentsBeginAtBoundary ==
    pc = "speeches" =>
        /\ InDocumentOrder
        /\ NoBlankSegment
        /\ \A k \in 2..Len(speeches) :
              \/ BoundaryAt(speeches[k], 1)
              \/ /\ ArticleAndTreatmentOnly(speeches[k])
                 /\ k < Len(speeches)
                 /\ BoundaryAt(speeches[k] \o " " \o speeches[k + 1], 1)
        /\ NoBoundaryInside

\* a document has been split into three segments: a preamble, the article and
\* treatment of a phrase, and a speech whose first word was the token of that phrase
C20_Witness ==
    /\ pc = "speeches"
    /\ Len(speeches) = 3
    /\ ~BoundaryAt(speeches[1], 1)
    /\ ArticleAndTreatmentOnly(speeches[2])
    /\ BoundaryAt(speeches[3], 1)

-----------------------------------------------------------------------------
(* Claims C21 to C30 *)

\* C21: in every reachable state of the resolver, the canonical name of every
\* identity record is one of the record's variants (original_names) and no variant
\* of the record is strictly longer than it
C21_CanonicalIsLongestVariant ==
    \A id \in Ids(normalizer) :
        /\ normalizer.entries[id].canonical_name \in NamesOf(normalizer, id)
        /\ \A name \in NamesOf(normalizer, id) :
               Len(name) <= Len(normalizer.entries[id].canonical_name)

\* the last call merged a name into a record that holds a strictly longer variant,
\* so the canonical name had to be chosen among variants of different lengths
C21_Witness ==
    /\ last_branch \in {"one_match", "clear_top_match"}
    /\ \E id \in Ids(normalizer) :
           /\ last_raw \in NamesOf(normalizer, id)
           /\ Cardinality(NamesOf(normalizer, id)) >= 3
           /\ \E name \in NamesOf(normalizer, id) : Len(name) > Len(last_raw)

\* the names whose key is new to the normalizer and scores at least 85 against
\* two or more keys of the map
SeveralCandidates(n) ==
    {name \in SessionNames :
        /\ IsNewKey(n, NormKey[name])
        /\ Cardinality(PotentialMatches(n, NormKey[name])) >= 2}

\* C22: when a new key has two or more candidates scoring at least 85, the outcome
\* of get_canonical_name (the value returned, the record merged into or the key
\* added to the conflicts, the normalizer afterwards) is the same for every order
\* in which the keys of the map can be iterated: it is the outcome computed from
\* the set of (key, score) pairs
C22_DecisionIndependentOfOrder ==
    \A name \in SeveralCandidates(normalizer) :
        \A list \in MatchLists(normalizer, NormKey[name]) :
            DecideOnList(normalizer, name, NormKey[name], list)
                = get_canonical_name(normalizer, name)

\* a name with candidates of equal best score is about to be passed (a conflict in
\* every order), after a call that merged a name into the clearly best of several
\* candidates
C22_Witness ==
    /\ last_branch = "clear_top_match"
    /\ \E name \in SeveralCandidates(normalizer) :
           \E list \in MatchLists(normalizer, NormKey[name]) :
               /\ list[1][2] = list[2][2]
               /\ list[1][1] # list[2][1]
               /\ normalizer.norm_to_canonical[list[1][1]]
                      # normalizer.norm_to_canonical[list[2][1]]

\* C23: across the calls of get_canonical_name of one session the conflict set never
\* loses a key, the key-to-record map never loses a key, and the variant set of no
\* identity record loses a member
C23_ResolverOnlyGrows ==
    [][/\ normalizer.conflicts \subseteq normalizer'.conflicts
       /\ DOMAIN normalizer.norm_to_canonical \subseteq DOMAIN normalizer'.norm_to_canonical
       /\ Ids(normalizer) \subseteq Ids(normalizer')
       /\ \A id \in Ids(normalizer) :
              NamesOf(normalizer, id) \subseteq NamesOf(normalizer', id)]_vars

\* the resolver has grown in each of the three ways: a conflict key, a record with
\* several keys and a record with several variants under one key
C23_Witness ==
    /\ normalizer.conflicts # {}
    /\ \E id \in Ids(normalizer) : Cardinality(KeysOf(normalizer, id)) >= 2
    /\ \E id \in Ids(normalizer) :
           Cardinality(NamesOf(normalizer, id)) > Cardinality(KeysOf(normalizer, id))
    /\ last_branch = "known_key"

\* the name is empty, or its normalization fails, or its key is a known conflict
TakesFallbackPath(n, original_name) ==
    \/ original_name = ""
    \/ NormKey[original_name] \in {None, ""}
    \/ NormKey[original_name] \in n.conflicts

\* C24: a call of get_canonical_name that returns through the empty-name path, the
\* normalization-failure path or the known-conflict-key path leaves the
\* key-to-record map, every record's canonical name and variants, and the conflict
\* set unchanged
C24_FallbackPathsDoNotMutate ==
    [][TakesFallbackPath(normalizer, last_raw') =>
          /\ last_branch' \in {"empty", "normalization_failed", "known_conflict"}
          /\ normalizer'.norm_to_canonical = normalizer.norm_to_canonical
          /\ normalizer'.entries = normalizer.entries
          /\ normalizer'.conflicts = normalizer.conflicts]_vars

\* the three fallback paths have been taken on a resolver that holds records and a
\* conflict key, the last one being the known-conflict path
C24_Witness ==
    /\ last_branch = "known_conflict"
    /\ "" \in passed
    /\ \E name \in passed : name # "" /\ NormKey[name] \in {None, ""}
    /\ Ids(normalizer) # {}
    /\ NormKey[last_raw] \in normalizer.conflicts

\* C25: whenever a call of get_canonical_name (direct key hit or merge) changes the
\* canonical name of an identity record, the new canonical name is strictly longer
\* than the one it replaces; a variant of equal length never replaces it
C25_CanonicalOnlyGetsLonger ==
    [][\A id \in Ids(normalizer) :
          normalizer'.entries[id].canonical_name # normalizer.entries[id].canonical_name
              => Len(normalizer'.entries[id].canonical_name)
                     > Len(normalizer.entries[id].canonical_name)]_vars

\* C26: in every reachable state of the resolver no normalized key is both a key of
\* the key-to-record map and a member of the conflict set
C26_ConflictsAndKeysDisjoint ==
    normalizer.conflicts \cap DOMAIN normalizer.norm_to_canonical = {}

\* a key has been recorded as a conflict and, after that, another key has been
\* added to the map by a similarity search over the keys of the map
C26_Witness ==
    /\ normalizer.conflicts # {}
    /\ last_branch \in {"new", "one_match", "clear_top_match"}
    /\ NormKey[last_raw] \in DOMAIN normalizer.norm_to_canonical
    /\ \E key \in normalizer.conflicts :
           \E k \in DOMAIN normalizer.norm_to_canonical \ {NormKey[last_raw]} :
               Score[<<key, k>>] >= MatchThreshold

\* the raw names of the session whose key is a key of the map
NamesOfKnownKeys(n) ==
    {name \in DOMAIN NormKey : NormKey[name] \in DOMAIN n.norm_to_canonical}

RecordOf(n, name) == n.norm_to_canonical[NormKey[name]]

\* the strings get_canonical_name can return for the name on the normalizer n
Returned(n, name) == {o.ret : o \in get_canonical_name(n, name)}

\* a key of the map points to the same record after every step, so two keys of one
\* record stay keys of one record and a record is never split
KeysNeverRepointed ==
    [][\A key \in DOMAIN normalizer.norm_to_canonical :
          /\ key \in DOMAIN normalizer'.norm_to_canonical
          /\ normalizer'.norm_to_canonical[key] = normalizer.norm_to_canonical[key]]_vars

\* C27 as stated: once two keys point to the same record they point to the same
\* record in every later state, and at any moment get_canonical_name returns the
\* same string for raw names that normalize to either key
C27_AliasesReturnSameString ==
    /\ KeysNeverRepointed
    /\ [](\A a, b \in NamesOfKnownKeys(normalizer) :
              (NormKey[a] # NormKey[b] /\ RecordOf(normalizer, a) = RecordOf(normalizer, b))
                  => Returned(normalizer, a) = Returned(normalizer, b))

\* C27, amended: once two keys point to the same record they point to the same
\* record in every later state, and get_canonical_name on a raw name that
\* normalizes to a key of a record returns the canonical name the record has after
\* the call: the canonical name it had before, the same for every such raw name,
\* unless the raw name is strictly longer than it, and then the raw name itself
C27_AliasesReturnCanonical ==
    /\ KeysNeverRepointed
    /\ [](\A a \in NamesOfKnownKeys(normalizer) :
              \A o \in get_canonical_name(normalizer, a) :
                  LET before == normalizer.entries[RecordOf(normalizer, a)].canonical_name
                  IN /\ o.ret = o.n.entries[RecordOf(normalizer, a)].canonical_name
                     /\ o.ret = IF Len(a) > Len(before) THEN a ELSE before)

\* a record has two keys, the last call returned its canonical name on a direct
\* key hit, and a raw name of one of its keys is strictly longer than that name
C27_Witness ==
    /\ last_branch = "known_key"
    /\ last_raw \in NamesOfKnownKeys(normalizer)
    /\ Cardinality(KeysOf(normalizer, RecordOf(normalizer, last_raw))) >= 2
    /\ \E a \in NamesOfKnownKeys(normalizer) :
           /\ RecordOf(normalizer, a) = RecordOf(normalizer, last_raw)
           /\ NormKey[a] # NormKey[last_raw]
           /\ Len(a) > Len(normalizer.entries[RecordOf(normalizer, a)].canonical_name)

\* all the spans of the list carry one label
SameLabel(entities) ==
    \A i, j \in DOMAIN entities : entities[i].entity_group = entities[j].entity_group

\* the list is in the order of the start offsets and each span starts at least two
\* characters after the end of the span before it
Separated(entities) ==
    \A i \in 1..(Len(entities) - 1) :
        /\ entities[i].start <= entities[i + 1].start
        /\ entities[i + 1].start >= entities[i].end + 2

\* C28: for a list of spans that all carry the same label, the list returned by
\* _merge_adjacent_entities is sorted by start offset and any two consecutive spans
\* of it satisfy next.start >= previous.end + 2, so no two of its spans have the
\* same (start, end) and the removal of duplicate spans that follows drops nothing
C28_MergedSpansSeparated ==
    [][/\ (pc = "merge" /\ SameLabel(stage_entities)) =>
              /\ Separated(stage_entities')
              /\ \A i, j \in DOMAIN stage_entities' :
                     SameSpan(stage_entities'[i], stage_entities'[j]) => i = j
              /\ _remove_duplicate_spans(stage_entities') = stage_entities'
       /\ (pc = "dedup" /\ SameLabel(stage_entities)) =>
              stage_entities' = stage_entities]_vars

\* three spans of one label, of which two were one character apart with no word
\* in capitals and the third further away, have been merged into two spans, and
\* the removal of duplicates has run on them
C28_Witness ==
    /\ pc = "group"
    /\ Len(pessoa_entities) = 3
    /\ SameLabel(pessoa_entities)
    /\ \E i, j \in DOMAIN pessoa_entities :
           /\ OneApart(pessoa_entities[i], pessoa_entities[j])
           /\ ~IsUpper(pessoa_entities[i].word)
           /\ ~IsUpper(pessoa_entities[j].word)
    /\ Len(stage_entities) = 2
    /\ Separated(stage_entities)

\* the spans have non-empty text and pairwise distinct (start, end)
DistinctSpans(entities) ==
    /\ \A i \in DOMAIN entities : entities[i].word # ""
    /\ \A i, j \in DOMAIN entities : SameSpan(entities[i], entities[j]) => i = j

\* the keys of the mapping under which the triple stands
KeysHolding(grouped, triple) ==
    {k \in DOMAIN grouped : triple \in Range(grouped[k].positions)}

\* every span of entities stands, as the triple Triple gives for it, under exactly
\* one key of grouped, a key at least as long as its text, and grouped holds no
\* other triple
GroupsExactly(entities, grouped, Triple(_)) ==
    /\ \A i \in DOMAIN entities :
          /\ Cardinality(KeysHolding(grouped, Triple(entities[i]))) = 1
          /\ \A k \in KeysHolding(grouped, Triple(entities[i])) :
                 Len(grouped[k].name) >= Len(entities[i].word)
    /\ \A k \in DOMAIN grouped :
          Range(grouped[k].positions) \subseteq {Triple(entities[i]) : i \in DOMAIN entities}

StartEndScore(entity) == <<entity.start, entity.end, entity.score>>

StartEndRoundedScore(entity) == <<entity.start, entity.end, Round4(entity.score)>>

\* C29 as stated: for a list of spans with non-empty text and pairwise distinct
\* (start, end), the (start, end, score) triple of every span appears in the
\* occurrence list of exactly one key of the mapping _group_similar_persons returns,
\* no other triple appears in it, and every key is at least as long as the text of
\* every span grouped under it
C29_GroupingKeepsEveryTriple ==
    [][(pc = "group" /\ DistinctSpans(stage_entities)) =>
          GroupsExactly(stage_entities, grouped_results', StartEndScore)]_vars

\* C29, amended: the same with the triple (start, end, score rounded to four
\* decimals)
C29_GroupingKeepsEveryRoundedTriple ==
    [][(pc = "group" /\ DistinctSpans(stage_entities)) =>
          GroupsExactly(stage_entities, grouped_results', StartEndRoundedScore)]_vars

\* spans whose score has five decimals have been grouped, one group was given the
\* name of a later word of the same length, and a key holds the positions of
\* spans of different texts
C29_Witness ==
    /\ pc # "group"
    /\ DistinctSpans(stage_entities)
    /\ \E i \in DOMAIN stage_entities : Round4(stage_entities[i].score) # stage_entities[i].score
    /\ \E k \in DOMAIN grouped_results :
           /\ grouped_results[k].name = "Lima Ana"
           /\ \E i, j \in DOMAIN stage_entities :
                 /\ stage_entities[i].word = "ANA LIMA"
                 /\ stage_entities[j].word = "Ana Lima"
                 /\ {StartEndRoundedScore(stage_entities[i]),
                     StartEndRoundedScore(stage_entities[j])}
                        \subseteq Range(grouped_results[k].positions)

\* the occurrences of the mapping that start where a span of the rules starts, each
\* with the name of its group and the phrase of the document it covers
RuleOccurrences ==
    {[name |-> grouped_results[k].name,
      phrase |-> SubSeq(Chars(doc_text), grouped_results[k].positions[i][1] + 1,
                        grouped_results[k].positions[i][2])] :
        <<k, i>> \in {<<k, i>> \in (DOMAIN grouped_results) \X (1..Len(doc_text)) :
                         /\ i \in DOMAIN grouped_results[k].positions
                         /\ \E r \in DOMAIN rule_entities :
                                rule_entities[r].start = grouped_results[k].positions[i][1]}}

\* the segments of the annotated text that begin with the phrase
SegmentsBeginningWith(phrase) ==
    {i \in DOMAIN split_into_speeches(annotated) :
        StartsWith(Chars(split_into_speeches(annotated)[i]), phrase)}

\* C30: when the annotated text is produced from a span that starts at the first
\* character of a speaker-introduction phrase, as every span of the rules does,
\* then after split_into_speeches the <PESSOA:name> tag of that span is the first
\* tag of the segment that begins at that phrase, so that
\* extract_speaker_and_mentions attributes the segment to the name of the span
C30_SpeakerTagInItsOwnSegment ==
    (pc = "graph" /\ annotated # "") =>
        \A occurrence \in RuleOccurrences :
            /\ SegmentsBeginningWith(occurrence.phrase) # {}
            /\ \A i \in SegmentsBeginningWith(occurrence.phrase) :
                   LET pessoa_tags == PessoaTagNames(split_into_speeches(annotated)[i])
                   IN pessoa_tags # <<>> /\ pessoa_tags[1] = occurrence.name

====
